---- MODULE Spec2Model ----
(***************************************************************************)
(* The kinm append-only resource store: the record layer (db), the list    *)
(* iterator (newLister) and the object-level Strategy with its watch loop  *)
(* and its compaction task, over one kind's log table and its compaction   *)
(* row.                                                                    *)
(***************************************************************************)
EXTENDS Integers, Sequences, FiniteSets, TLC

(***************************************************************************)
(* Bounds of the model.                                                    *)
(***************************************************************************)
\* Inserts are enabled only while the id they allocate is at most MaxId.
MaxId == 3

\* List calls ask for a limit in 0..MaxLimit.
MaxLimit == 2

\* LIMIT of one prune batch of compact.sql: 500 in the statement, scaled to
\* the logs of the model so that a batch can be smaller than the set of
\* prunable rows.
CompactLimit == 2

\* Objects of a namespaced kind always carry their namespace; "" is only
\* used by queries, where getNamespace turns it into "no namespace filter".
Namespaces == {"n1", "n2"}
Keys == {<<"a", "n1">>, <<"b", "n1">>, <<"a", "n2">>}
UIDs == {"u1", "u2"}
Vals == {"v1", "v2"}
Callers == {"c1", "c2"}

\* A NULL column or a nil *int64 (ids start at 1); a nil *string.
NULL == 0
NilStr == "<nil>"

(***************************************************************************)
(* Integers as decimal text: ids stay below 10, so the text of an id is    *)
(* one digit; a continue token is "<rv>:<id>".                             *)
(***************************************************************************)
Digits == 0..9

FormatInt(n) == <<n>>

\* strconv.ParseInt: an error unless the text is a non-empty run of digits.
ParseInt(s) ==
    IF Len(s) = 1 /\ s[1] \in Digits
    THEN [err |-> FALSE, n |-> s[1]]
    ELSE [err |-> TRUE, n |-> 0]

\* listResourceVersion + ":" + last item's resourceVersion
ContinueToken(rv, id) == FormatInt(rv) \o <<":">> \o FormatInt(id)

(***************************************************************************)
(* Encoded objects and log rows.                                           *)
(***************************************************************************)
\* json.Encode of an object: the fields of the blob besides name, namespace
\* and uid, which the row also carries as columns.  The stored
\* resourceVersion is always "0".
Encode(gen, val, dts, fin) == [gen |-> gen, val |-> val, dts |-> dts, fin |-> fin]

Max(S) == CHOOSE x \in S : \A y \in S : y <= x

\* SELECT max(id) FROM placeholder, NULL (0) on an empty table.
MaxIdOf(l) == IF l = {} THEN NULL ELSE Max({r.id : r \in l})

\* The ids of the rows of a table.
IdsOf(l) == {r.id : r \in l}

RECURSIVE SortById(_)
SortById(S) ==
    IF S = {} THEN <<>>
    ELSE LET m == CHOOSE r \in S : \A q \in S : r.id <= q.id
         IN <<m>> \o SortById(S \ {m})

Take(s, n) == IF Len(s) <= n THEN s ELSE SubSeq(s, 1, n)

\* getNamespace: the empty namespace is no filter.
getNamespace(namespace) == IF namespace = "" THEN NilStr ELSE namespace

MatchNs(r, ns) == ns = NilStr \/ r.namespace = ns
MatchName(r, name) == name = NilStr \/ r.name = name

\* The columns of a row with created as it is stored.
ProjectStored(r) == r

\* The columns a list statement returns for a row: created is computed.
Project(r) == [r EXCEPT !.created = (r.created \/ r.previousID = NULL)]

\* list.sql without its "deleted is false" condition.
ListSQLWithDeleted(l, ns, name, rev, cont, limit) ==
    LET kept == {r \in l : /\ MatchNs(r, ns)
                           /\ MatchName(r, name)
                           /\ (rev = 0 \/ r.id <= rev)
                           /\ (cont = 0 \/ r.id > cont)}
        top  == {r \in kept : \A q \in kept :
                    (q.name = r.name /\ q.namespace = r.namespace) => q.id <= r.id}
        rows == SortById({Project(r) : r \in top})
    IN IF limit > 0 THEN Take(rows, limit + 1) ELSE rows

\* list.sql: the newest row of each (name, namespace) among the rows the
\* WHERE clause keeps, tombstones dropped, ascending id, LIMIT limit+1.
ListSQL(l, ns, name, rev, cont, limit) ==
    LET kept == {r \in l : /\ MatchNs(r, ns)
                           /\ MatchName(r, name)
                           /\ (rev = 0 \/ r.id <= rev)
                           /\ (cont = 0 \/ r.id > cont)}
        top  == {r \in kept : \A q \in kept :
                    (q.name = r.name /\ q.namespace = r.namespace) => q.id <= r.id}
        live == {Project(r) : r \in {t \in top : ~t.deleted}}
        rows == SortById(live)
    IN IF limit > 0 THEN Take(rows, limit + 1) ELSE rows

\* listafter.sql with "id >= $3" for "id > $3".
ListAfterSQLInclusive(l, ns, name, rev, limit) ==
    LET kept == {Project(r) : r \in {q \in l : /\ MatchNs(q, ns)
                                              /\ MatchName(q, name)
                                              /\ q.id >= rev}}
        rows == SortById(kept)
    IN IF limit > 0 THEN Take(rows, limit + 1) ELSE rows

\* listafter.sql: every row with id > rev, ascending id, LIMIT limit+1.
ListAfterSQL(l, ns, name, rev, limit) ==
    LET kept == {Project(r) : r \in {q \in l : /\ MatchNs(q, ns)
                                              /\ MatchName(q, name)
                                              /\ q.id > rev}}
        rows == SortById(kept)
    IN IF limit > 0 THEN Take(rows, limit + 1) ELSE rows

\* tablemeta.sql
TableMeta(l, cid) == [ListID |-> MaxIdOf(l), CompactionID |-> cid]

\* db.doList: the records, and the meta columns of the scanned rows (the zero
\* tableMeta when the statement returned no row).
doList(l, cid, ns, name, rev, after, cont, limit) ==
    LET recs == IF after THEN ListAfterSQL(l, ns, name, rev, limit)
                ELSE ListSQL(l, ns, name, rev, cont, limit)
    IN [meta    |-> IF Len(recs) = 0 THEN [ListID |-> 0, CompactionID |-> 0]
                    ELSE TableMeta(l, cid),
        records |-> recs]

\* db.list after doList: pin ListID, read the table meta when it is still
\* zero, check the compaction watermark.  snapMeta is what getTableMeta reads
\* in the transaction of the list.
listFinish(d, snapMeta, rev, after) ==
    LET m1 == IF rev > 0 /\ ~after THEN [d.meta EXCEPT !.ListID = rev] ELSE d.meta
        m2 == IF m1.ListID = 0 THEN snapMeta ELSE m1
    IN IF rev # 0 /\ m2.ListID # 0 /\ m2.ListID < m2.CompactionID
       THEN [err |-> "CompactionExpired", meta |-> m2, records |-> <<>>]
       ELSE [err |-> "None", meta |-> m2, records |-> d.records]

\* A list transaction of READ COMMITTED isolation.
ReadCommitted(snap, current) == current

\* The isolation of the list transaction: REPEATABLE READ, so its second
\* statement reads the snapshot of its first, not the rows committed since.
SnapshotRead(snap, current) == snap

\* db.list: one REPEATABLE READ, read-only transaction.
list(l, cid, ns, name, rev, after, cont, limit) ==
    IF (cont > 0 /\ rev <= 0) \/ (after /\ cont # 0)
    THEN [err |-> "panic", meta |-> [ListID |-> 0, CompactionID |-> 0], records |-> <<>>]
    ELSE listFinish(doList(l, cid, ns, name, rev, after, cont, limit),
                    TableMeta(l, cid), rev, after)

NoRow == [id |-> 0, name |-> "", namespace |-> "", previousID |-> NULL, uid |-> "",
          created |-> FALSE, deleted |-> FALSE, value |-> Encode(0, "", FALSE, FALSE)]

\* db.get
get(l, cid, namespace, name) ==
    LET First(r) ==
            IF r.err # "None" THEN [err |-> r.err, rec |-> NoRow]
            ELSE IF Len(r.records) = 0 THEN [err |-> "NotFound", rec |-> NoRow]
            ELSE [err |-> "None", rec |-> r.records[1]]
    IN First(list(l, cid, getNamespace(namespace), name, 0, FALSE, 0, 1))

(***************************************************************************)
(* The write path of the record layer.                                     *)
(***************************************************************************)
\* insert.sql with max(id) for max(id) + 1.
NextIdStale(l) == IF l = {} THEN 1 ELSE MaxIdOf(l)

\* insert.sql: (SELECT COALESCE(MAX(id), 0) + 1 FROM placeholder)
NextId(l) == MaxIdOf(l) + 1

\* insert.sql with the table's constraints: id = max(id)+1, previous_id
\* UNIQUE, (name, namespace, created) UNIQUE (NULLs never collide).
InsertSQL(l, rec) ==
    LET id  == NextId(l)
        row == [id |-> id, name |-> rec.name, namespace |-> rec.namespace,
                previousID |-> rec.previousID, uid |-> rec.uid,
                created |-> rec.created, deleted |-> rec.deleted,
                value |-> rec.value]
        dupPrev    == rec.previousID # NULL /\
                      \E q \in l : q.previousID = rec.previousID
        dupCreated == rec.created /\
                      \E q \in l : q.name = rec.name /\ q.namespace = rec.namespace
                                   /\ q.created
    IN IF dupPrev \/ dupCreated
       THEN [unique |-> TRUE, id |-> 0, log |-> l]
       ELSE [unique |-> FALSE, id |-> id, log |-> l \cup {row}]

\* db.doInsert without the comparison of previous_id with the current row.
CheckExistingNoRV(existing, rec) ==
    IF existing.uid # rec.uid THEN "UIDMismatch"
    ELSE IF ~rec.deleted /\ existing.value = rec.value THEN "Same"
    ELSE "None"

\* db.doInsert with an empty resourceVersion (previous_id 0) taken as "no
\* precondition".
CheckExistingAllowEmptyRV(existing, rec) ==
    IF rec.previousID # 0 /\ existing.id # rec.previousID THEN "Conflict"
    ELSE IF existing.uid # rec.uid THEN "UIDMismatch"
    ELSE IF ~rec.deleted /\ existing.value = rec.value THEN "Same"
    ELSE "None"

\* db.doInsert with the uid compared before previous_id.
CheckExistingUidFirst(existing, rec) ==
    IF existing.uid # rec.uid THEN "UIDMismatch"
    ELSE IF existing.id # rec.previousID THEN "Conflict"
    ELSE IF ~rec.deleted /\ existing.value = rec.value THEN "Same"
    ELSE "None"

\* db.doInsert without the comparison of the uid with the current row's.
CheckExistingNoUID(existing, rec) ==
    IF existing.id # rec.previousID THEN "Conflict"
    ELSE IF ~rec.deleted /\ existing.value = rec.value THEN "Same"
    ELSE "None"

\* db.doInsert without the comparison of the value with the stored value.
CheckExistingNoSame(existing, rec) ==
    IF existing.id # rec.previousID THEN "Conflict"
    ELSE IF existing.uid # rec.uid THEN "UIDMismatch"
    ELSE "None"

\* db.doInsert's check of an update against the current row.
CheckExisting(existing, rec) ==
    IF existing.id # rec.previousID THEN "Conflict"
    ELSE IF existing.uid # rec.uid THEN "UIDMismatch"
    ELSE IF ~rec.deleted /\ existing.value = rec.value THEN "Same"
    ELSE "None"

\* db.doInsert's check on update with the NotFound of d.get returned as it is.
CheckUpdatePassNotFound(g, rec) ==
    IF g.err # "None" THEN g.err
    ELSE CheckExisting(g.rec, rec)

\* db.doInsert's check on update: the NotFound of d.get becomes a
\* ResourceVersionMismatch (Conflict), any other error is returned.
CheckUpdate(g, rec) ==
    IF g.err = "NotFound" THEN "Conflict"
    ELSE IF g.err # "None" THEN g.err
    ELSE CheckExisting(g.rec, rec)

\* db.doInsert under the table lock.
\* g is what d.get returned, chk the check on update, ins the result of
\* the INSERT statement (which runs only when the check passes).
doInsert(l, cid, rec) ==
    LET Check(g) == IF rec.created THEN "None" ELSE CheckUpdate(g, rec)
        Result(g, chk, ins) ==
            IF chk = "Same"
            THEN [err |-> "None", id |-> g.rec.id, log |-> l, appended |-> FALSE]
            ELSE IF chk # "None"
            THEN [err |-> chk, id |-> 0, log |-> l, appended |-> FALSE]
            ELSE IF ins.unique
            THEN [err |-> "AlreadyExists", id |-> 0, log |-> l, appended |-> FALSE]
            ELSE [err |-> "None", id |-> ins.id, log |-> ins.log, appended |-> TRUE]
        Checked(g) == Result(g, Check(g), InsertSQL(l, rec))
    IN Checked(get(l, cid, rec.namespace, rec.name))

\* db.insert
insert(l, cid, rec) == doInsert(l, cid, rec)

\* clearcreated.sql: created is reset on the older rows of the name.
ClearCreatedSQL(l, namespace, name, id) ==
    {IF r.namespace = namespace /\ r.name = name /\ r.id < id
     THEN [r EXCEPT !.created = FALSE] ELSE r : r \in l}

\* db.delete without the clear of created that follows the insert.
deleteNoClear(l, cid, rec) ==
    doInsert(l, cid, [rec EXCEPT !.created = FALSE, !.deleted = TRUE])

\* db.delete: the insert of a tombstone, then the clear of created.
delete(l, cid, rec) ==
    LET Cleared(out) ==
            IF out.err # "None" THEN out
            ELSE [out EXCEPT !.log = ClearCreatedSQL(out.log, rec.namespace,
                                                     rec.name, out.id)]
    IN Cleared(doInsert(l, cid, [rec EXCEPT !.created = FALSE, !.deleted = TRUE]))

(***************************************************************************)
(* Strategy: Create, Update, UpdateStatus, Delete.                         *)
(***************************************************************************)
\* Strategy.Create
Create(l, cid, obj) ==
    insert(l, cid, [name |-> obj.name, namespace |-> obj.namespace,
                    previousID |-> NULL, uid |-> obj.uid, created |-> TRUE,
                    deleted |-> FALSE,
                    value |-> Encode(1, obj.val, obj.dts, obj.fin)])

\* Strategy.doUpdate with the generation incremented whatever
\* updateGeneration says.
doUpdateAlwaysGeneration(l, cid, obj, updateGeneration) ==
    LET rec == [name |-> obj.name, namespace |-> obj.namespace,
                previousID |-> obj.rv, uid |-> obj.uid, created |-> FALSE,
                deleted |-> FALSE,
                value |-> Encode(obj.gen + 1, obj.val, obj.dts, obj.fin)]
    IN IF obj.dts /\ ~obj.fin THEN delete(l, cid, rec) ELSE insert(l, cid, rec)

\* Strategy.doUpdate with the deletionTimestamp alone deciding for db.delete.
doUpdateIgnoreFinalizers(l, cid, obj, updateGeneration) ==
    LET gen == IF updateGeneration THEN obj.gen + 1 ELSE obj.gen
        rec == [name |-> obj.name, namespace |-> obj.namespace,
                previousID |-> obj.rv, uid |-> obj.uid, created |-> FALSE,
                deleted |-> FALSE,
                value |-> Encode(gen, obj.val, obj.dts, obj.fin)]
    IN IF obj.dts THEN delete(l, cid, rec) ELSE insert(l, cid, rec)

\* Strategy.doUpdate
doUpdate(l, cid, obj, updateGeneration) ==
    LET gen == IF updateGeneration THEN obj.gen + 1 ELSE obj.gen
        rec == [name |-> obj.name, namespace |-> obj.namespace,
                previousID |-> obj.rv, uid |-> obj.uid, created |-> FALSE,
                deleted |-> FALSE,
                value |-> Encode(gen, obj.val, obj.dts, obj.fin)]
    IN IF obj.dts /\ ~obj.fin THEN delete(l, cid, rec) ELSE insert(l, cid, rec)

\* Strategy.Delete
Delete(l, cid, obj) == doUpdate(l, cid, [obj EXCEPT !.dts = TRUE], FALSE)

\* The call a caller makes: op on the submitted object.
Call(l, cid, op, obj) ==
    CASE op = "Create"       -> Create(l, cid, obj)
      [] op = "Update"       -> doUpdate(l, cid, obj, TRUE)
      [] op = "UpdateStatus" -> doUpdate(l, cid, obj, FALSE)
      [] op = "Delete"       -> Delete(l, cid, obj)

\* Update, Create and Delete defer broadcastChange; UpdateStatus does not.
Broadcasts(op) == op # "UpdateStatus"

(***************************************************************************)
(* Compaction statements.                                                  *)
(***************************************************************************)
\* compact.sql without the bound of cur.id by the watermark.
PrunableNoWatermark(l, cid) ==
    {prev \in l : \E cur \in l :
        (prev.id = cur.previousID \/ (prev.id = cur.id /\ cur.deleted))}

\* compact.sql with the watermark that updatecompaction.sql would store in
\* place of the stored one: the watermark advanced before the prune.
PrunableAdvancedFirst(l, cid) ==
    {prev \in l : \E cur \in l :
        /\ (prev.id = cur.previousID \/ (prev.id = cur.id /\ cur.deleted))
        /\ cur.id <= (IF MaxIdOf(l) > 1 THEN MaxIdOf(l) ELSE 1)}

\* compact.sql: the rows the join selects.
Prunable(l, cid) ==
    {prev \in l : \E cur \in l :
        /\ (prev.id = cur.previousID \/ (prev.id = cur.id /\ cur.deleted))
        /\ cur.id <= cid}

\* updatecompaction.sql
UpdateCompactionSQL(l) == IF MaxIdOf(l) > 1 THEN MaxIdOf(l) ELSE 1


(***************************************************************************)
(* State.                                                                  *)
(***************************************************************************)
VARIABLES
    log,            \* the rows of the kind's table
    compactionID,   \* the kind's row of the compaction table, 0 when absent
    pc,             \* per caller: "idle", "exec" (submitted), "bcast"
    req,            \* per caller: the call in flight
    res,            \* per caller: the outcome of its last call
    maxRet,         \* the greatest resourceVersion a write has returned
    overlap,        \* the calls of the two callers were in flight together
    txs,            \* per caller: its write transaction holds the table lock,
                    \* and the rows its statements read
    cpc,            \* the compaction task: "idle", "prune", "advance"
    quiet,          \* the runs of db.compact completed since the last write, none
                    \* concurrent with a write, and the objects live after that write
    cctx,           \* the context of the compaction task is cancelled (Destroy)
    getRes,         \* what a Get of the current rows has returned, with its arguments
    lpc,            \* the List call: "idle", "meta" (first query done), "page"
    lopts,          \* the options of the List call
    lpage,          \* the iterator of the List call and the objects collected
    lres,           \* what the last List call returned
    wpc,            \* the watcher: "off", "drain", "send", "senderr", "poll",
                    \* "select", "parked", "closed"
    wopts,          \* the options of the Watch call, resourceVersion the cursor
    wlister,        \* the records of the watcher's iterator, not yet sent
    wsig,           \* the broadcast channel the parked watcher holds is closed
    wstart,         \* how the Watch started, and what was live then
    wctx,           \* the context of the Watch is cancelled
    emitted         \* the events sent on the channel of the watch, in order

writerVars == <<pc, req, res, maxRet, overlap, txs>>
listVars == <<lpc, lopts, lpage, lres>>
watchVars == <<wpc, wopts, wlister, wsig, wstart, wctx, emitted>>
compactVars == <<cpc, quiet, cctx>>
vars == <<log, compactionID, pc, req, res, maxRet, overlap, txs, cpc, quiet, cctx, getRes,
          lpc, lopts, lpage, lres, wpc, wopts, wlister, wsig, wstart, wctx, emitted>>

Obj(key, uid, rv, gen, val, dts, fin) ==
    [name |-> key[1], namespace |-> key[2], uid |-> uid, rv |-> rv, gen |-> gen,
     val |-> val, dts |-> dts, fin |-> fin]

NoObj == Obj(<<"", "">>, "", 0, 0, "", FALSE, FALSE)
NoReq == [op |-> "None", obj |-> NoObj]
NoTx == [held |-> FALSE, snap |-> {}]
NoRes == [op |-> "None", name |-> "", namespace |-> "", rv |-> 0,
          err |-> "None", id |-> 0, appended |-> FALSE, live |-> FALSE,
          fresh |-> FALSE, prevMax |-> 0]

\* The resourceVersions a caller can have learned for a name: the ids of its
\* rows, and 0 for an empty resourceVersion.
KnownRVs(l, key) == {0} \cup {r.id : r \in {q \in l : q.name = key[1] /\ q.namespace = key[2]}}

\* The calls of the callers of the write specification.
WriteReqs(l) ==
    [op : {"Create"},
     obj : {Obj(k, "u1", 0, 0, "v1", FALSE, FALSE) : k \in {<<"a", "n1">>, <<"b", "n1">>}}]
    \cup
    [op : {"Update"},
     obj : {Obj(<<"a", "n1">>, u, rv, 0, v, FALSE, FALSE) :
                u \in UIDs, rv \in KnownRVs(l, <<"a", "n1">>), v \in Vals}]
    \cup
    [op : {"UpdateStatus"},
     obj : {Obj(<<"a", "n1">>, "u1", rv, 1, v, FALSE, FALSE) :
                rv \in KnownRVs(l, <<"a", "n1">>), v \in Vals}]
    \cup
    [op : {"Delete"},
     obj : {Obj(<<"a", "n1">>, "u1", rv, 0, "v1", FALSE, FALSE) :
                rv \in KnownRVs(l, <<"a", "n1">>)}]

\* Get would succeed for the object of the call.
Live(l, cid, obj) == get(l, cid, obj.namespace, obj.name).err = "None"

\* The update of the call is against the object's current row and uid and
\* changes its encoding: alone, it would append a row.
Fresh(l, cid, rq) ==
    /\ rq.op # "Create"
    /\ Call(l, cid, rq.op, rq.obj).appended

\* Strategy.Get: the decoded object of the row, its resourceVersion the id.
StrategyGet(l, cid, namespace, name) ==
    LET Decoded(g) ==
            [namespace |-> namespace, name |-> name, err |-> g.err,
             objName |-> g.rec.name, objNamespace |-> g.rec.namespace,
             value |-> g.rec.value, rv |-> FormatInt(g.rec.id)]
    IN Decoded(get(l, cid, namespace, name))

NoGet == [namespace |-> "", name |-> "", err |-> "None", objName |-> "",
          objNamespace |-> "", value |-> Encode(0, "", FALSE, FALSE), rv |-> FormatInt(0)]

(***************************************************************************)
(* Strategy.List over newLister.                                           *)
(***************************************************************************)
\* The selection predicate of a list or watch: everything, or a label
\* selector that the objects with val "v1" match.
Preds == {"all", "v1"}
Matches(pred, value) == pred = "all" \/ value.val = "v1"

\* An item of a list: the decoded object, its resourceVersion the row's id.
Item(rec) == [name |-> rec.name, namespace |-> rec.namespace, id |-> rec.id,
              value |-> rec.value]

\* The loop of Strategy.List with the limit checked before the predicate:
\* the continue token is set as soon as limit objects are followed by
\* another record.
RECURSIVE CollectLimitFirst(_, _, _, _, _, _)
CollectLimitFirst(recs, i, objs, limit, pred, listRV) ==
    IF i > Len(recs) THEN [objs |-> objs, continue |-> <<>>, stop |-> FALSE]
    ELSE IF limit > 0 /\ Len(objs) >= limit
    THEN [objs |-> objs, continue |-> ContinueToken(listRV, objs[Len(objs)].id),
          stop |-> TRUE]
    ELSE IF ~Matches(pred, recs[i].value)
    THEN CollectLimitFirst(recs, i + 1, objs, limit, pred, listRV)
    ELSE CollectLimitFirst(recs, i + 1, Append(objs, Item(recs[i])), limit, pred, listRV)

\* The loop of Strategy.List over the records of one page: the objects
\* collected, and the continue token once limit objects are followed by
\* another match.
RECURSIVE Collect(_, _, _, _, _, _)
Collect(recs, i, objs, limit, pred, listRV) ==
    IF i > Len(recs) THEN [objs |-> objs, continue |-> <<>>, stop |-> FALSE]
    ELSE IF ~Matches(pred, recs[i].value)
    THEN Collect(recs, i + 1, objs, limit, pred, listRV)
    ELSE IF limit > 0 /\ Len(objs) >= limit
    THEN [objs |-> objs, continue |-> ContinueToken(listRV, objs[Len(objs)].id),
          stop |-> TRUE]
    ELSE Collect(recs, i + 1, Append(objs, Item(recs[i])), limit, pred, listRV)

NoOpts == [namespace |-> "", rv |-> <<>>, limit |-> 0, continue |-> <<>>, pred |-> "all"]
NoMeta == [ListID |-> 0, CompactionID |-> 0]
NoPage == [d |-> [meta |-> NoMeta, records |-> <<>>], snap |-> NoMeta,
           listID |-> 0, last |-> 0, objs |-> <<>>, qmax |-> 0, raced |-> FALSE]
NoList == [called |-> FALSE, err |-> "None", items |-> <<>>, rv |-> <<>>,
           continue |-> <<>>, head |-> FALSE, continued |-> FALSE, raced |-> FALSE]

\* newLister's parse of a resourceVersion or continue text, 0 when empty.
ParseOpt(text) == IF text = <<>> THEN [err |-> FALSE, n |-> 0] ELSE ParseInt(text)

(***************************************************************************)
(* Strategy.Watch and streamWatch.                                         *)
(***************************************************************************)
NoWatch == [namespace |-> "", pred |-> "all", rv |-> <<>>]
NoStart == [err |-> "None", rev |-> 0, snapshot |-> FALSE, cursor |-> 0,
            head |-> 0, watermark |-> 0, first |-> FALSE, live |-> <<>>]

\* toWatchEvent without its case for deleted records.
EventTypeNoDeleted(rec) ==
    IF rec.created THEN "Added"
    ELSE "Modified"

\* toWatchEvent: the type of the event of a record.
EventType(rec) ==
    IF rec.created THEN "Added"
    ELSE IF rec.deleted THEN "Deleted"
    ELSE "Modified"

\* The loop of streamWatch over its iterator: the events sent, those of the
\* records the predicate matches.
RECURSIVE Events(_, _, _, _)
Events(recs, i, pred, initial) ==
    IF i > Len(recs) THEN <<>>
    ELSE IF Matches(pred, recs[i].value)
    THEN <<[type |-> EventType(recs[i]), id |-> recs[i].id, initial |-> initial]>>
         \o Events(recs, i + 1, pred, initial)
    ELSE Events(recs, i + 1, pred, initial)

\* The ids of the newest rows of the objects that are live in the namespace
\* and match the predicate, ascending: what a Watch without resourceVersion
\* that starts now has to announce.
LiveAt(l, namespace, pred) ==
    LET rows == {r \in l : /\ ~r.deleted
                           /\ \A o \in l : (o.name = r.name /\ o.namespace = r.namespace)
                                                => o.id <= r.id
                           /\ (namespace = "" \/ r.namespace = namespace)
                           /\ Matches(pred, r.value)}
        srt  == SortById(rows)
    IN [i \in 1..Len(srt) |-> srt[i].id]

\* A select of streamWatch without its time.After case.
NoFallbackTimer(p) == FALSE

\* The select of streamWatch may take its time.After case.
FallbackTimer(p) == p = "parked"

\* The (name, namespace) of the objects that are live: the newest row of
\* the name is no tombstone.
LiveKeys(l) ==
    {<<r.name, r.namespace>> : r \in
        {q \in l : /\ ~q.deleted
                    /\ \A o \in l : (o.name = q.name /\ o.namespace = q.namespace)
                                         => o.id <= q.id}}

\* A write has committed the rows l: no run of db.compact has completed
\* since, and a run that is under way (-1) is concurrent with a write.
Written(l) == [runs |-> IF cpc = "idle" THEN 0 ELSE -1, live |-> LiveKeys(l)]

Init ==
    /\ log = {}
    /\ compactionID = 0
    /\ pc = [c \in Callers |-> "idle"]
    /\ req = [c \in Callers |-> NoReq]
    /\ res = [c \in Callers |-> NoRes]
    /\ maxRet = 0
    /\ overlap = FALSE
    /\ txs = [c \in Callers |-> NoTx]
    /\ cpc = "idle"
    /\ quiet = [runs |-> 0, live |-> {}]
    /\ cctx = FALSE
    /\ getRes = NoGet
    /\ lpc = "idle"
    /\ lopts = NoOpts
    /\ lpage = NoPage
    /\ lres = NoList
    /\ wpc = "off"
    /\ wopts = NoWatch
    /\ wlister = <<>>
    /\ wsig = FALSE
    /\ wstart = NoStart
    /\ wctx = FALSE
    /\ emitted = <<>>

\* A caller enters Create, Update, UpdateStatus or Delete.
Submit(c) ==
    /\ pc[c] = "idle"
    /\ \E rq \in WriteReqs(log) :
          /\ req' = [req EXCEPT ![c] = rq]
          /\ res' = [res EXCEPT ![c] = [NoRes EXCEPT !.fresh = Fresh(log, compactionID, rq)]]
    /\ pc' = [pc EXCEPT ![c] = "exec"]
    /\ overlap' = (\E d \in Callers \ {c} : pc[d] = "exec")
    /\ UNCHANGED <<log, compactionID, maxRet, compactVars, getRes, listVars, watchVars, txs>>

\* The outcome a caller records for the call rq run on the committed state.
Outcome(rq, out, fresh) ==
    [op |-> rq.op, name |-> rq.obj.name, namespace |-> rq.obj.namespace,
     rv |-> rq.obj.rv,
     err |-> out.err, id |-> out.id, appended |-> out.appended,
     live |-> Live(log, compactionID, rq.obj),
     fresh |-> fresh,
     prevMax |-> maxRet]

\* The transaction of the call: db.insert or db.delete from the table lock
\* to the commit.  The lock (or the single connection) lets no other write
\* statement run in between, and readers only see the committed rows.
Exec(c) ==
    /\ pc[c] = "exec"
    /\ \E out \in {Call(log, compactionID, req[c].op, req[c].obj)} :
          /\ out.appended => out.id <= MaxId
          /\ log' = out.log
          /\ req' = [req EXCEPT ![c] = NoReq]
          /\ res' = [res EXCEPT ![c] = Outcome(req[c], out, res[c].fresh)]
          /\ maxRet' = IF out.err = "None" /\ out.id > maxRet THEN out.id ELSE maxRet
          /\ pc' = [pc EXCEPT ![c] = IF Broadcasts(req[c].op) THEN "bcast" ELSE "idle"]
          /\ quiet' = Written(out.log)
    /\ UNCHANGED <<compactionID, overlap, cpc, cctx, getRes, listVars, watchVars, txs>>

\* The deferred broadcastChange of Create, Update and Delete, then the
\* return: the channel is closed, which wakes the watcher that waits on it.
Bcast(c) ==
    /\ pc[c] = "bcast"
    /\ pc' = [pc EXCEPT ![c] = "idle"]
    /\ wsig' = (wsig \/ wpc = "parked")
    /\ UNCHANGED <<log, compactionID, txs, req, res, maxRet, overlap, compactVars, getRes,
                   listVars, wpc, wopts, wlister, wstart, wctx, emitted>>

\* The compaction ticker fires: db.compact starts.
CompactStart ==
    /\ cpc = "idle"
    /\ cpc' = "prune"
    /\ UNCHANGED <<log, compactionID, quiet, cctx, writerVars, getRes, listVars, watchVars>>

\* One compact.sql statement of the prune loop.
CompactPrune ==
    /\ cpc = "prune"
    /\ LET el == Prunable(log, compactionID)
       IN IF el = {}
          THEN /\ cpc' = "advance"
               /\ log' = log
          ELSE /\ \E S \in SUBSET el :
                     /\ Cardinality(S) = (IF Cardinality(el) < CompactLimit
                                          THEN Cardinality(el) ELSE CompactLimit)
                     /\ log' = log \ S
               /\ cpc' = "prune"
    /\ getRes' = NoGet
    /\ UNCHANGED <<compactionID, quiet, cctx, writerVars, listVars, watchVars>>

\* The updatecompaction.sql statement that ends db.compact.
CompactAdvance ==
    /\ cpc = "advance"
    /\ compactionID' = UpdateCompactionSQL(log)
    /\ cpc' = "idle"
    /\ quiet' = [quiet EXCEPT !.runs = IF @ < 0 THEN 0 ELSE IF @ < 2 THEN @ + 1 ELSE 2]
    /\ UNCHANGED <<log, cctx, writerVars, getRes, listVars, watchVars>>

\* One whole Create, Update, UpdateStatus or Delete of a caller that runs
\* alone, rq drawn from R: the transaction, then the broadcast and the return.
Write(c, R) ==
    /\ pc[c] = "idle"
    /\ \E rq \in R :
          \E out \in {Call(log, compactionID, rq.op, rq.obj)} :
             /\ out.appended => out.id <= MaxId
             /\ log' = out.log
             /\ res' = [res EXCEPT ![c] = Outcome(rq, out, rq.op # "Create" /\ out.appended)]
             /\ maxRet' = IF out.err = "None" /\ out.id > maxRet THEN out.id ELSE maxRet
             /\ quiet' = Written(out.log)
    /\ getRes' = NoGet
    /\ UNCHANGED <<compactionID, pc, req, overlap, cpc, cctx, listVars, watchVars, txs>>

\* Strategy.Get
Get ==
    /\ \E namespace \in Namespaces \cup {""}, name \in {"a"} :
          getRes' = StrategyGet(log, compactionID, namespace, name)
    /\ UNCHANGED <<log, compactionID, writerVars, compactVars, listVars, watchVars>>

\* What Strategy.List returns to its caller: the error, or the
\* resourceVersions of the items, the list resourceVersion and the continue
\* token.  head, continued and raced record the kind of call it was: no
\* resourceVersion and no token; with a token; a write committed between the
\* two statements of its first transaction.
ListResult(opts, page, err, objs, continue) ==
    [called |-> TRUE, err |-> err,
     items |-> IF err = "None" THEN [i \in 1..Len(objs) |-> objs[i].id] ELSE <<>>,
     rv |-> IF err = "None" THEN FormatInt(page.listID) ELSE <<>>,
     continue |-> IF err = "None" THEN continue ELSE <<>>,
     head |-> opts.rv = <<>> /\ opts.continue = <<>>,
     continued |-> opts.continue # <<>>,
     raced |-> page.raced]

\* After a page has been read: Strategy.List collects its records, and
\* either returns or lets the iterator fetch the next page.
ListAdvance(page, records) ==
    LET c == Collect(records, 1, page.objs, lopts.limit, lopts.pred, page.listID)
        more == ~c.stop /\ lopts.limit # 0 /\ Len(records) > lopts.limit
    IN IF more
       THEN /\ lpc' = "page"
            /\ lpage' = [page EXCEPT !.objs = c.objs, !.last = records[Len(records)].id]
            /\ UNCHANGED <<lopts, lres>>
       ELSE /\ lpc' = "idle"
            /\ lpage' = NoPage
            /\ lopts' = NoOpts
            /\ lres' = ListResult(lopts, page, "None", c.objs, c.continue)

\* Strategy.List is called: newLister parses the options and the list
\* transaction runs its first statement (doList).  The continue token is
\* empty or the token the previous List returned; the namespace, the
\* resourceVersion, the limit and the predicate are drawn from NSs, RVs,
\* Limits and Ps.
ListCall(NSs, RVs, Limits, Ps) ==
    /\ lpc = "idle"
    /\ \E namespace \in NSs, rv \in RVs,
          limit \in Limits, continue \in {<<>>, lres.continue}, pred \in Ps :
          LET rev  == ParseOpt(rv)
              cont == ParseOpt(continue)
              opts == [namespace |-> namespace, rv |-> rv, limit |-> limit,
                       continue |-> continue, pred |-> pred]
          IN IF rev.err \/ cont.err
             THEN /\ lpc' = "idle"
                  /\ lpage' = NoPage
                  /\ lopts' = NoOpts
                  /\ lres' = ListResult(opts, NoPage, "Invalid", <<>>, <<>>)
             ELSE IF cont.n > 0 /\ rev.n <= 0
             THEN /\ lpc' = "idle"
                  /\ lpage' = NoPage
                  /\ lopts' = NoOpts
                  /\ lres' = ListResult(opts, NoPage, "panic", <<>>, <<>>)
             ELSE /\ lpc' = "meta"
                  /\ lopts' = opts
                  /\ lpage' = [NoPage EXCEPT
                           !.d = doList(log, compactionID, getNamespace(namespace),
                                        NilStr, rev.n, FALSE, cont.n, limit),
                           !.snap = TableMeta(log, compactionID),
                           !.qmax = MaxIdOf(log)]
                  /\ lres' = [NoList EXCEPT !.continue = lres.continue]
    /\ UNCHANGED <<log, compactionID, writerVars, compactVars, getRes, watchVars>>

\* The rest of the first list transaction (ListID, the table meta when no row
\* was returned, the watermark check), then the loop of Strategy.List.
ListMeta ==
    /\ lpc = "meta"
    /\ LET rev == ParseOpt(lopts.rv).n
           fin == listFinish(lpage.d,
                             SnapshotRead(lpage.snap, TableMeta(log, compactionID)),
                             rev, FALSE)
       IN IF fin.err # "None"
          THEN /\ lpc' = "idle"
               /\ lpage' = NoPage
               /\ lopts' = NoOpts
               /\ lres' = ListResult(lopts, lpage, fin.err, <<>>, <<>>)
          ELSE ListAdvance([lpage EXCEPT !.listID = fin.meta.ListID,
                                         !.raced = MaxIdOf(log) > lpage.qmax],
                           fin.records)
    /\ UNCHANGED <<log, compactionID, writerVars, compactVars, getRes, watchVars>>

\* The iterator fetches the next page in a transaction of its own, and the
\* loop of Strategy.List goes on.
ListPage ==
    /\ lpc = "page"
    /\ LET nxt == list(log, compactionID, getNamespace(lopts.namespace), NilStr,
                       lpage.listID, FALSE, lpage.last, lopts.limit)
       IN IF nxt.err # "None"
          THEN /\ lpc' = "idle"
               /\ lpage' = NoPage
               /\ lopts' = NoOpts
               /\ lres' = ListResult(lopts, lpage, nxt.err, <<>>, <<>>)
          ELSE ListAdvance(lpage, nxt.records)
    /\ UNCHANGED <<log, compactionID, writerVars, compactVars, getRes, watchVars>>

\* Strategy.Watch: "0" stands for no resourceVersion; newLister lists the
\* snapshot at HEAD, or the rows after the resourceVersion when one is given;
\* the cursor of the stream is the ListID of that list.  The namespace, the
\* resourceVersion and the predicate are drawn from NSs, RVs and Ps.
WatchStart(NSs, RVs, Ps) ==
    /\ wpc = "off"
    /\ wstart = NoStart
    /\ \E namespace \in NSs, pred \in Ps, rvIn \in RVs :
          LET rv    == IF rvIn = FormatInt(0) THEN <<>> ELSE rvIn
              after == rv # <<>>
              rev   == ParseOpt(rv)
              first == list(log, compactionID, getNamespace(namespace), NilStr,
                            rev.n, after, 0, 0)
          IN IF rev.err \/ first.err # "None"
             THEN /\ wstart' = [NoStart EXCEPT !.err = IF rev.err THEN "Invalid"
                                                        ELSE first.err,
                                                !.rev = rev.n,
                                                !.watermark = compactionID]
                  /\ UNCHANGED <<wpc, wopts, wlister>>
             ELSE /\ wpc' = "drain"
                  /\ wopts' = [namespace |-> namespace, pred |-> pred,
                               rv |-> FormatInt(first.meta.ListID)]
                  /\ wlister' = first.records
                  /\ wstart' = [err |-> "None", rev |-> rev.n, snapshot |-> ~after,
                                cursor |-> IF after THEN rev.n ELSE first.meta.ListID,
                                head |-> first.meta.ListID,
                                watermark |-> compactionID,
                                first |-> TRUE,
                                live |-> IF after THEN <<>>
                                         ELSE LiveAt(log, namespace, pred)]
    /\ UNCHANGED <<log, compactionID, writerVars, compactVars, getRes, listVars,
                   wsig, wctx, emitted>>

\* streamWatch sends the events of its iterator to the consumer.
WatchDrain ==
    /\ wpc = "drain"
    /\ emitted' = emitted \o Events(wlister, 1, wopts.pred, wstart.first)
    /\ wlister' = <<>>
    /\ wstart' = [wstart EXCEPT !.first = FALSE]
    /\ wpc' = "poll"
    /\ UNCHANGED <<log, compactionID, writerVars, compactVars, getRes, listVars,
                   wopts, wsig, wctx>>

\* streamWatch polls: newLister lists the rows after the cursor.  An error
\* is sent as an event and ends the stream; a resourceVersion that has not
\* moved leads to the select, any other becomes the cursor.
WatchPoll ==
    /\ wpc = "poll"
    /\ LET rev == ParseOpt(wopts.rv)
           nxt == list(log, compactionID, getNamespace(wopts.namespace), NilStr,
                       rev.n, TRUE, 0, 0)
       IN IF rev.err \/ nxt.err # "None"
          THEN /\ emitted' = Append(emitted, [type |-> "Error", id |-> 0, initial |-> FALSE])
               /\ wpc' = "closed"
               /\ UNCHANGED <<wopts, wlister>>
          ELSE /\ wlister' = nxt.records
               /\ emitted' = emitted
               /\ IF FormatInt(nxt.meta.ListID) = wopts.rv
                  THEN /\ wpc' = "select"
                       /\ wopts' = wopts
                  ELSE /\ wpc' = "drain"
                       /\ wopts' = [wopts EXCEPT !.rv = FormatInt(nxt.meta.ListID)]
    /\ wsig' = FALSE
    /\ UNCHANGED <<log, compactionID, writerVars, compactVars, getRes, listVars,
                   wstart, wctx>>

\* streamWatch enters the select: waitChange hands it the broadcast channel
\* of this moment, which no broadcast has closed yet.
WatchSelect ==
    /\ wpc = "select"
    /\ wpc' = "parked"
    /\ wsig' = FALSE
    /\ UNCHANGED <<log, compactionID, writerVars, compactVars, getRes, listVars,
                   wopts, wlister, wstart, wctx, emitted>>

\* The select ends on the closed broadcast channel.
WatchWake ==
    /\ wpc = "parked"
    /\ wsig
    /\ wpc' = "drain"
    /\ wsig' = FALSE
    /\ UNCHANGED <<log, compactionID, writerVars, compactVars, getRes, listVars,
                   wopts, wlister, wstart, wctx, emitted>>

\* The select ends on time.After(2 * time.Second).
WatchTimer ==
    /\ FallbackTimer(wpc)
    /\ wpc' = "drain"
    /\ wsig' = FALSE
    /\ UNCHANGED <<log, compactionID, writerVars, compactVars, getRes, listVars,
                   wopts, wlister, wstart, wctx, emitted>>

\* The select ends on ctx.Done(): the context of the watch is cancelled.
WatchCancel ==
    /\ wpc = "parked"
    /\ wpc' = "closed"
    /\ wsig' = FALSE
    /\ UNCHANGED <<log, compactionID, writerVars, compactVars, getRes, listVars,
                   wopts, wlister, wstart, wctx, emitted>>

\* The transaction of one Create, Update, UpdateStatus or Delete of a caller
\* that runs alone, rq drawn from R; its broadcast is the step Bcast.
Commit(c, R) ==
    /\ pc[c] = "idle"
    /\ \E rq \in R :
          \E out \in {Call(log, compactionID, rq.op, rq.obj)} :
             /\ out.appended => out.id <= MaxId
             /\ log' = out.log
             /\ res' = [res EXCEPT ![c] = Outcome(rq, out, rq.op # "Create" /\ out.appended)]
             /\ maxRet' = IF out.err = "None" /\ out.id > maxRet THEN out.id ELSE maxRet
             /\ pc' = [pc EXCEPT ![c] = IF Broadcasts(rq.op) THEN "bcast" ELSE "idle"]
             /\ quiet' = Written(out.log)
    /\ UNCHANGED <<compactionID, req, overlap, cpc, cctx, getRes, listVars, watchVars, txs>>

(***************************************************************************)
(* Writers only: two callers, no compaction.                               *)
(***************************************************************************)
NextWrite ==
    \/ \E c \in Callers : Submit(c)
    \/ \E c \in Callers : Exec(c)
    \/ \E c \in Callers : Bcast(c)

SpecWrite == Init /\ [][NextWrite]_vars

(***************************************************************************)
(* One caller, the compaction task and Get.                                *)
(***************************************************************************)
\* The calls of the caller of the compaction specification.
CompactKeys == {<<"a", "n1">>, <<"a", "n2">>}

CompactReqs(l) ==
    [op : {"Create"},
     obj : {Obj(k, "u1", 0, 0, "v1", FALSE, FALSE) : k \in CompactKeys}]
    \cup
    UNION {[op : {"Update"},
            obj : {Obj(k, "u1", rv, 0, "v2", FALSE, FALSE) : rv \in KnownRVs(l, k)}]
           : k \in CompactKeys}
    \cup
    UNION {[op : {"Delete"},
            obj : {Obj(k, "u1", rv, 0, "v1", FALSE, FALSE) : rv \in KnownRVs(l, k)}]
           : k \in CompactKeys}

NextCompact ==
    \/ Write("c1", CompactReqs(log))
    \/ CompactStart
    \/ CompactPrune
    \/ CompactAdvance
    \/ Get

SpecCompact == Init /\ [][NextCompact]_vars

(***************************************************************************)
(* Properties.                                                             *)
(***************************************************************************)
Done(c) == pc[c] # "exec" /\ res[c].op # "None"
Succeeded(c) == res[c].err = "None"

RowsOf(l, namespace, name) == {r \in l : r.name = name /\ r.namespace = namespace}
NewestOf(S) == CHOOSE r \in S : \A q \in S : q.id <= r.id

\* C1: without compaction, the resourceVersion returned by a successful write
\* that appends a row is greater than the resourceVersion returned by every
\* earlier successful write.
C1_Monotonic ==
    \A c \in Callers :
        (Succeeded(c) /\ res[c].appended) => res[c].id > res[c].prevMax

\* C1: an Update, UpdateStatus or Delete has appended a row after two
\* earlier writes had returned their resourceVersions.
C1_Witness ==
    \E c \in Callers :
        /\ res[c].op \in {"Update", "UpdateStatus", "Delete"}
        /\ Succeeded(c) /\ res[c].appended
        /\ res[c].prevMax >= 2

\* The two callers have both returned from Updates of the same object with
\* the same resourceVersion, submitted while the other was in flight.
ConcurrentUpdates ==
    /\ overlap
    /\ \A c \in Callers : Done(c) /\ res[c].op = "Update"
    /\ res["c1"].name = res["c2"].name
    /\ res["c1"].namespace = res["c2"].namespace
    /\ res["c1"].rv = res["c2"].rv

\* One caller has succeeded and appended a row, the other has failed with
\* Conflict and appended nothing.
OneWinsOtherConflicts ==
    \E w \in Callers :
        /\ Succeeded(w) /\ res[w].appended
        /\ \A d \in Callers \ {w} : res[d].err = "Conflict" /\ ~res[d].appended

\* C2 as stated: of two concurrent Updates of one object with the same
\* resourceVersion exactly one succeeds and appends a row, the other fails
\* with Conflict.
C2_Original == ConcurrentUpdates => OneWinsOtherConflicts

\* C2, amended: of two concurrent Updates of one object with the same
\* resourceVersion, each of which alone would append a row (the
\* resourceVersion is the id of the object's current row, the uid matches and
\* the encoded object differs from the stored one), exactly one succeeds and
\* appends one row, the other fails with Conflict and appends nothing.
C2_ExactlyOne ==
    (ConcurrentUpdates /\ \A c \in Callers : res[c].fresh) => OneWinsOtherConflicts

\* C2: two such concurrent Updates have returned, the first caller with
\* Conflict, the second having appended its row.
C2_Witness ==
    /\ ConcurrentUpdates
    /\ \A c \in Callers : res[c].fresh
    /\ res["c1"].err = "Conflict"
    /\ res["c2"].appended

\* C3: a Create of a name that has a live object fails with AlreadyExists and
\* appends nothing, and two creation rows of one name always have a tombstone
\* of that name between them.
C3_Original ==
    /\ \A c \in Callers :
          (res[c].op = "Create" /\ res[c].live) =>
              (res[c].err = "AlreadyExists" /\ ~res[c].appended)
    /\ \A r1 \in log, r2 \in log :
          (/\ r1.previousID = NULL /\ r2.previousID = NULL
           /\ r1.name = r2.name /\ r1.namespace = r2.namespace
           /\ r1.id < r2.id)
          => \E t \in log : /\ t.deleted
                            /\ t.name = r1.name /\ t.namespace = r1.namespace
                            /\ r1.id < t.id /\ t.id < r2.id

\* What C4 says Get(namespace, name) returns: the newest row of that
\* (namespace, name), NotFound when it is a tombstone or there is no row.
GetOfNewest(g, rows) ==
    IF rows = {} \/ NewestOf(rows).deleted
    THEN g.err = "NotFound"
    ELSE /\ g.err = "None"
         /\ g.value = NewestOf(rows).value
         /\ g.objName = NewestOf(rows).name
         /\ g.objNamespace = NewestOf(rows).namespace
         /\ g.rv = FormatInt(NewestOf(rows).id)

\* C4 as stated: Get(namespace, name) returns the object of the newest row of
\* that (namespace, name) with that row's id as resourceVersion, and NotFound
\* if that row is a tombstone or there is none.
C4_Original ==
    getRes # NoGet => GetOfNewest(getRes, RowsOf(log, getRes.namespace, getRes.name))

\* The newest rows of the live objects called name, one per namespace.
LiveNewest(l, name) ==
    {r \in l : /\ r.name = name
               /\ ~r.deleted
               /\ r = NewestOf(RowsOf(l, r.namespace, name))}

\* C4, amended: with a non-empty namespace Get returns the object of the
\* newest row of that (namespace, name), resourceVersion its id, and NotFound
\* if that row is a tombstone or missing; with the empty namespace Get matches
\* the name in every namespace and returns the live object whose newest row
\* has the smallest id, NotFound if no object of that name is live.
C4_Get ==
    getRes # NoGet =>
        IF getRes.namespace # ""
        THEN GetOfNewest(getRes, RowsOf(log, getRes.namespace, getRes.name))
        ELSE LET tops == LiveNewest(log, getRes.name)
             IN IF tops = {} THEN getRes.err = "NotFound"
                ELSE LET first == CHOOSE r \in tops : \A q \in tops : r.id <= q.id
                     IN /\ getRes.err = "None"
                        /\ getRes.value = first.value
                        /\ getRes.objNamespace = first.namespace
                        /\ getRes.rv = FormatInt(first.id)

\* C4: a Get with the empty namespace has returned the object of namespace
\* n2 while the newest row of that name in namespace n1 is a tombstone.
C4_Witness ==
    /\ getRes # NoGet /\ getRes.namespace = "" /\ getRes.err = "None"
    /\ getRes.objNamespace = "n2"
    /\ RowsOf(log, "n1", getRes.name) # {}
    /\ NewestOf(RowsOf(log, "n1", getRes.name)).deleted

\* The items of a List pinned at revision rev: name, namespace and
\* resourceVersion of each.
ItemsAt(l, cid, namespace, rev) ==
    LET res0 == list(l, cid, getNamespace(namespace), NilStr, rev, FALSE, 0, 0)
    IN [err |-> res0.err,
        items |-> [i \in 1..Len(res0.records) |->
                      <<res0.records[i].name, res0.records[i].namespace,
                        res0.records[i].id>>]]

\* C5: while the watermark has not passed R, a List pinned at a revision R
\* that has been returned returns the same items before and after every
\* step of a writer or of compaction.
C5_Original ==
    [][\A R \in 1..MaxId, namespace \in Namespaces \cup {""} :
          (R <= maxRet /\ compactionID <= R /\ compactionID' <= R) =>
              ItemsAt(log', compactionID', namespace, R)
                  = ItemsAt(log, compactionID, namespace, R)]_vars

(***************************************************************************)
(* One caller and List calls.                                              *)
(***************************************************************************)
\* The calls of the caller of the list specification.
ListReqs(l) ==
    [op : {"Create"},
     obj : {Obj(k, "u1", 0, 0, "v1", FALSE, FALSE) : k \in Keys}]
    \cup
    UNION {[op : {"Update", "Delete"},
            obj : {Obj(k, "u1", rv, 0, "v2", FALSE, FALSE) :
                   rv \in {n \in KnownRVs(l, k) \ {0} : \A m \in KnownRVs(l, k) : m <= n}}]
           : k \in Keys}

NextList ==
    \/ Write("c1", ListReqs(log))
    \/ ListCall({"", "n2"}, {<<>>, FormatInt(1), FormatInt(2)}, 0..MaxLimit, Preds)
    \/ ListMeta
    \/ ListPage

SpecList == Init /\ [][NextList]_vars

(***************************************************************************)
(* Properties of List.                                                     *)
(***************************************************************************)
\* The ids of the rows a snapshot at revision M shows: for every object, its
\* newest row with id <= M, unless that row is a tombstone.
SnapshotIds(l, M) ==
    {r.id : r \in {q \in l : /\ q.id <= M
                             /\ ~q.deleted
                             /\ \A o \in l : (o.name = q.name /\ o.namespace = q.namespace
                                              /\ o.id <= M) => o.id <= q.id}}

\* The items a List with the options opts returns from the snapshot at M:
\* the rows of the snapshot in the namespace that match the predicate, by
\* ascending id, the first limit of them when a limit is given.
SnapshotItems(l, opts, M) ==
    LET rows == {r \in l : /\ r.id \in SnapshotIds(l, M)
                           /\ (opts.namespace = "" \/ r.namespace = opts.namespace)
                           /\ Matches(opts.pred, r.value)}
        ids  == SortById(rows)
        all  == [i \in 1..Len(ids) |-> ids[i].id]
    IN IF opts.limit = 0 THEN all ELSE Take(all, opts.limit)

\* The step in which a List call that has queried the table returns.
ListReturns == lpc # "idle" /\ lpc' = "idle"

\* C6: a List called with the continue token of the previous page succeeds,
\* reports the list resourceVersion of that page, and returns items of that
\* snapshot that come after the last item of that page.
C6_Original ==
    [][(lres' # lres /\ lres'.called /\ lres'.continued) =>
          /\ lres'.err = "None"
          /\ lres'.rv = <<lres.continue[1]>>
          /\ \A i \in 1..Len(lres'.items) :
                /\ lres'.items[i] > lres.continue[3]
                /\ lres'.items[i] \in SnapshotIds(log, lres.continue[1])]_vars

\* C9: a List with no resourceVersion and no continue token succeeds, its
\* list resourceVersion M is the greatest id of the snapshot its first
\* statement read, and its items are the items of the snapshot at M, whatever
\* has been committed since that statement.
C9_HeadSnapshot ==
    [][(ListReturns /\ lres'.head) =>
          /\ lres'.err = "None"
          /\ lres'.rv = FormatInt(lpage.qmax)
          /\ lres'.items = SnapshotItems(log, lopts, lpage.qmax)]_vars

\* C9: a List at HEAD has returned no item and the list resourceVersion 1,
\* a write having committed between its two statements.
C9_Witness ==
    /\ lres.called /\ lres.head /\ lres.raced /\ lres.err = "None"
    /\ lres.items = <<>>
    /\ lres.rv = FormatInt(1)

\* The revision of the snapshot a List has returned: its list
\* resourceVersion.
ListRev(r) == ParseInt(r.rv).n

\* C39 as stated: the list resourceVersion of every successful List is at
\* most the greatest id of the table.
C39_Original ==
    [][(ListReturns /\ lres'.err = "None") => ListRev(lres') <= MaxIdOf(log)]_vars

\* C39: the list resourceVersion of a successful List called with no
\* resourceVersion, or with one that the table had reached when the List
\* began, is at most the greatest id the table had then.
C39_ListRevReached ==
    [][(/\ ListReturns /\ lres'.err = "None"
        /\ ParseOpt(lopts.rv).n <= lpage.qmax) =>
           ListRev(lres') <= lpage.qmax]_vars

\* C39: a List pinned at resourceVersion 1 has returned an item and the list
\* resourceVersion 1, below the greatest id of the table.
C39_Witness ==
    /\ lres.called /\ lres.err = "None" /\ ~lres.head
    /\ lres.items # <<>>
    /\ ListRev(lres) = 1
    /\ MaxIdOf(log) > 1

\* C23: a List with a limit L > 0 and no continue token, at a revision that
\* the table had reached when the List began, returns the first L matches of
\* the snapshot at its list resourceVersion in the namespace; its continue
\* token is non-empty exactly when the snapshot has a further match after the
\* last item returned, and then it is "<list resourceVersion>:<resourceVersion
\* of the last item>"; when nothing matches, the list and the token are empty.
C23_LimitAndContinue ==
    [][(/\ ListReturns /\ lres'.err = "None" /\ ~lres'.continued
        /\ lopts.limit > 0 /\ ListRev(lres') <= lpage.qmax) =>
          LET all == SnapshotItems(log, [lopts EXCEPT !.limit = 0], ListRev(lres'))
              n   == Len(lres'.items)
          IN /\ n <= lopts.limit
             /\ lres'.items = Take(all, lopts.limit)
             /\ (lres'.continue # <<>>) = (Len(all) > n)
             /\ lres'.continue # <<>> =>
                    lres'.continue = ContinueToken(ListRev(lres'), lres'.items[n])
             /\ all = <<>> => (lres'.items = <<>> /\ lres'.continue = <<>>)]_vars

\* C23: a List with limit 1 and the selector has returned one item and no
\* continue token although the snapshot has two objects: the second does not
\* match the selector.
C23_Witness ==
    /\ lres.called /\ lres.err = "None" /\ ~lres.continued
    /\ Len(lres.items) = 1 /\ lres.continue = <<>>
    /\ Cardinality(SnapshotIds(log, ListRev(lres))) = 2
    /\ \E id \in SnapshotIds(log, ListRev(lres)) : id > lres.items[1]

(***************************************************************************)
(* One caller and one watcher.                                             *)
(***************************************************************************)
\* The calls of the caller of the watch specification.
WatchReqs(l) ==
    [op : {"Create"},
     obj : {Obj(k, "u1", 0, 0, "v1", FALSE, FALSE) : k \in CompactKeys}]
    \cup
    UNION {[op : {"Update", "UpdateStatus", "Delete"},
            obj : {Obj(k, "u1", rv, 0, "v2", FALSE, FALSE) :
                   rv \in {n \in KnownRVs(l, k) \ {0} : \A m \in KnownRVs(l, k) : m <= n}}]
           : k \in CompactKeys}

NextWatch ==
    \/ Commit("c1", WatchReqs(log))
    \/ Bcast("c1")
    \/ WatchStart({"", "n1"}, {<<>>} \cup {FormatInt(n) : n \in 0..2}, Preds)
    \/ WatchDrain
    \/ WatchPoll
    \/ WatchSelect
    \/ WatchWake
    \/ WatchTimer
    \/ WatchCancel

SpecWatch == Init /\ [][NextWatch]_vars

\* The calls of the caller of the fair watch specification, on one object.
FairReqs(l) == {rq \in WatchReqs(l) : rq.obj.namespace = "n1"}

NextWatchFair ==
    \/ Commit("c1", FairReqs(log))
    \/ Bcast("c1")
    \/ WatchStart({""}, {<<>>, FormatInt(1)}, Preds)
    \/ WatchDrain
    \/ WatchPoll
    \/ WatchSelect
    \/ WatchWake
    \/ WatchTimer
    \/ WatchCancel

\* The watcher goroutine runs, its consumer keeps receiving, and the timer
\* of a select that is waited on fires.
SpecWatchFair ==
    /\ Init /\ [][NextWatchFair]_vars
    /\ WF_vars(WatchDrain)
    /\ WF_vars(WatchPoll)
    /\ WF_vars(WatchSelect)
    /\ WF_vars(WatchWake \/ WatchTimer)

(***************************************************************************)
(* Properties of Watch.                                                    *)
(***************************************************************************)
\* The events of the watch that carry an object.
ObjectEvents == SelectSeq(emitted, LAMBDA e : e.type # "Error")
EventIds(evs) == {evs[i].id : i \in 1..Len(evs)}

\* The ids of the object events are strictly increasing and greater than R.
IncreasingAbove(evs, R) ==
    /\ \A i \in 1..Len(evs) : evs[i].id > R
    /\ \A i, j \in 1..Len(evs) : i < j => evs[i].id < evs[j].id

\* C7: a Watch started with a resourceVersion R > 0 sends no event of a row
\* with id <= R, and the ids of the object events it sends are strictly
\* increasing.
C7_Original == wstart.rev > 0 => IncreasingAbove(ObjectEvents, wstart.rev)

\* C7: a Watch started with a resourceVersion R > 0 that is not greater than
\* the greatest id of the table at that time sends no event of a row with
\* id <= R, and the ids of the object events it sends are strictly
\* increasing.
C7_TailOrder ==
    (wstart.rev > 0 /\ wstart.rev <= wstart.head) =>
        IncreasingAbove(ObjectEvents, wstart.rev)

\* C7: a Watch started at resourceVersion 1, the row 1 being in the table
\* then, has sent two events.
C7_Witness ==
    /\ wstart.rev = 1
    /\ wstart.head >= 1
    /\ Len(ObjectEvents) = 2

\* The row with id n has been committed after the start cursor of the
\* running watch, in its namespace, and matches its predicate.
Owed(n) ==
    /\ wpc \notin {"off", "closed"}
    /\ n > wstart.cursor
    /\ \E r \in log : /\ r.id = n
                      /\ (wopts.namespace = "" \/ r.namespace = wopts.namespace)
                      /\ Matches(wopts.pred, r.value)

\* C8: every row that is owed to the watcher is eventually sent, unless the
\* watch is cancelled.
C8_NoEventLost ==
    \A n \in 1..MaxId : Owed(n) ~> (n \in EventIds(ObjectEvents) \/ wpc = "closed")

\* C8: the watcher is parked on a channel that no broadcast will close, the
\* caller has returned, and a row owed to the watcher has not been sent.
C8_Witness ==
    /\ wpc = "parked" /\ ~wsig
    /\ pc["c1"] = "idle"
    /\ \E n \in 1..MaxId : Owed(n) /\ n \notin EventIds(ObjectEvents)

\* C10: once a Watch with no resourceVersion has sent the events of its
\* first list, these are the first events of the stream, one Added event
\* for every object that was live when the Watch started, by ascending id.
C10_Original ==
    (wstart.snapshot /\ ~wstart.first) =>
        /\ Len(emitted) >= Len(wstart.live)
        /\ \A i \in 1..Len(wstart.live) :
              /\ emitted[i].id = wstart.live[i]
              /\ emitted[i].type = "Added"
              /\ emitted[i].initial
        /\ \A i \in 1..Len(emitted) : emitted[i].initial => i <= Len(wstart.live)

\* The events of the watch that come from listafter.sql: all of them when
\* the Watch had a resourceVersion, else those after the first list.
TailEvents ==
    SelectSeq(ObjectEvents, LAMBDA e : ~(wstart.snapshot /\ e.initial))

RowOfId(l, id) == CHOOSE r \in l : r.id = id

\* C11: every event of the tail is Deleted exactly when its row is a
\* tombstone, Added exactly when its row has no previous_id, Modified
\* otherwise, and the events of the tail are in the order of the ids, which is
\* the order in which the writes committed.
C11_TailTypes ==
    /\ \A i \in 1..Len(TailEvents) :
          LET e == TailEvents[i]
              r == RowOfId(log, e.id)
          IN /\ \E q \in log : q.id = e.id
             /\ (e.type = "Deleted") = r.deleted
             /\ (e.type = "Added") = (r.previousID = NULL)
             /\ (e.type = "Modified") = (~r.deleted /\ r.previousID # NULL)
    /\ \A i, j \in 1..Len(TailEvents) :
          i < j => TailEvents[i].id < TailEvents[j].id

\* C11: a Watch with a resourceVersion has sent the Added event of one
\* object and then the Deleted event of another object.
C11_Witness ==
    /\ ~wstart.snapshot
    /\ \E i, j \in 1..Len(TailEvents) :
          /\ i < j
          /\ TailEvents[i].type = "Added" /\ TailEvents[j].type = "Deleted"
          /\ RowOfId(log, TailEvents[i].id).namespace
                # RowOfId(log, TailEvents[j].id).namespace

(***************************************************************************)
(* Properties of compaction.                                               *)
(***************************************************************************)
\* r is the newest row of its (name, namespace) and no tombstone.
IsNewestLive(l, r) ==
    /\ ~r.deleted
    /\ \A o \in l : (o.name = r.name /\ o.namespace = r.namespace) => o.id <= r.id

\* C16: whatever writes interleave with db.compact, a row that a step
\* removes from the log is not the newest row of a live object and its id is
\* at most the watermark stored at that step.
C16_PruneSafe ==
    [][\A id \in IdsOf(log) \ IdsOf(log') :
          /\ id <= compactionID
          /\ ~IsNewestLive(log, RowOfId(log, id))]_vars

\* C16: the prune loop of a run of db.compact is under way, the predecessor
\* of the newest row of a live object has been pruned, and a row above the
\* watermark, written since the watermark was stored, is in the log.
C16_Witness ==
    /\ cpc = "prune"
    /\ \E r \in log : /\ IsNewestLive(log, r)
                      /\ r.previousID # NULL
                      /\ r.previousID \notin IdsOf(log)
    /\ \E r \in log : r.id > compactionID

\* C17: after two runs of db.compact with no write since before the first,
\* the log has exactly one row for each object that was live after the last
\* write, and no other row.
C17_Original ==
    quiet.runs = 2 =>
        /\ Cardinality(log) = Cardinality(quiet.live)
        /\ \A r \in log : /\ <<r.name, r.namespace>> \in quiet.live
                          /\ ~r.deleted

\* The row supersedes another row, or itself: it has a previous_id or is a
\* tombstone.
Superseding(cur) == cur.previousID # NULL \/ cur.deleted

\* C29: rows leave the log only in the prune loop of db.compact, which does
\* not change the watermark, and each row that leaves is superseded on
\* account of a row at or below the watermark stored before the run; while
\* every superseding row is above the stored watermark the loop deletes
\* nothing; the statement that advances the watermark deletes nothing, so the
\* rows it makes eligible stay until the prune loop of the next run.
C29_PruneThenAdvance ==
    [][/\ IdsOf(log) \ IdsOf(log') # {} =>
             /\ cpc = "prune" /\ compactionID' = compactionID
             /\ \A id \in IdsOf(log) \ IdsOf(log') :
                   \E cur \in log :
                       /\ (id = cur.previousID \/ (id = cur.id /\ cur.deleted))
                       /\ cur.id <= compactionID
       /\ (\A cur \in log : Superseding(cur) => cur.id > compactionID) =>
             IdsOf(log) \subseteq IdsOf(log')
       /\ compactionID' # compactionID =>
             /\ cpc = "advance" /\ cpc' = "idle"
             /\ log' = log
             /\ compactionID' = UpdateCompactionSQL(log)]_vars

\* C29: no row has ever been deleted, a run of db.compact has completed
\* after the last write and has advanced the watermark to the newest row, and
\* the rows this made eligible are still in the log.
C29_Witness ==
    /\ cpc = "idle" /\ quiet.runs = 1
    /\ Cardinality(log) = maxRet /\ maxRet >= 2
    /\ compactionID = MaxIdOf(log)
    /\ \E prev \in log, cur \in log : prev.id = cur.previousID /\ cur.id <= compactionID

\* A step of db.compact: a prune batch, the end of the prune loop or the
\* update of the watermark.
CompactStep ==
    /\ cpc \in {"prune", "advance"}
    /\ IdsOf(log') \subseteq IdsOf(log)
    /\ (log' # log \/ cpc' # cpc)

\* C33: Get of every (namespace, name) and List at HEAD of every namespace
\* return the same before and after every step of db.compact.
C33_Original ==
    [][CompactStep =>
          /\ \A k \in CompactKeys :
                get(log', compactionID', k[2], k[1]) = get(log, compactionID, k[2], k[1])
          /\ \A namespace \in Namespaces \cup {""} :
                ItemsAt(log', compactionID', namespace, 0)
                    = ItemsAt(log, compactionID, namespace, 0)]_vars

\* C34: no step lowers the watermark: every run of db.compact leaves it at
\* least where it was.
C34_Original == [][compactionID' >= compactionID]_vars

\* C35: a step of db.compact leaves what a List pinned at a revision R
\* returns as it was, or makes that List fail with CompactionExpired.
C35_Original ==
    [][CompactStep =>
          \A R \in 1..MaxId, namespace \in Namespaces \cup {""} :
             \/ ItemsAt(log', compactionID', namespace, R).err = "CompactionExpired"
             \/ ItemsAt(log', compactionID', namespace, R)
                    = ItemsAt(log, compactionID, namespace, R)]_vars

\* C24: the id that an insert allocates is greater than every id allocated
\* before (the greatest of which is the greatest resourceVersion a write has
\* returned), also when compaction has removed rows in between.
C24_Original ==
    [][\A id \in IdsOf(log') \ IdsOf(log) : id > maxRet]_vars

(***************************************************************************)
(* One caller, the compaction task and List calls without limit.           *)
(***************************************************************************)
\* The calls of the caller of this specification, on one object.
CompactListReqs(l) == {rq \in CompactReqs(l) : rq.obj.namespace = "n1"}

NextCompactList ==
    \/ Write("c1", CompactListReqs(log))
    \/ CompactStart
    \/ CompactPrune
    \/ CompactAdvance
    \/ ListCall({"", "n2"}, {<<>>, FormatInt(1)}, {0}, {"all"})
    \/ ListMeta

SpecCompactList == Init /\ [][NextCompactList]_vars

\* The revision that the db.list transaction of the List call asks for, and
\* the watermark at the snapshot of that transaction.
TxRev == ParseOpt(lopts.rv).n
TxWatermark == lpage.snap.CompactionID

\* C14: a db.list transaction of a List that asks for the snapshot at a
\* revision R with 0 < R < watermark ends the List with CompactionExpired and
\* no items; one with R equal to the watermark, or with no revision, does not
\* end it with CompactionExpired.
C14_Original ==
    [][(lpc = "meta" /\ lpc' # "meta") =>
          /\ (TxRev > 0 /\ TxRev < TxWatermark) =>
                (lres'.called /\ lres'.err = "CompactionExpired" /\ lres'.items = <<>>)
          /\ (TxRev = 0 \/ TxRev = TxWatermark) =>
                ~(lres'.called /\ lres'.err = "CompactionExpired")]_vars

(***************************************************************************)
(* streamWatch step by step, with its consumer and its context.            *)
(***************************************************************************)
\* The predicates of the Watch calls of this specification: everything, or
\* a selector that the objects with val "v1" match and whose GetAttrs fails
\* on the objects with val "v2".
StreamPreds == {"all", "failv2"}

\* opts.Predicate.Matches returns an error for the object.
MatchErr(pred, value) == pred = "failv2" /\ value.val = "v2"

ErrorEvent == [type |-> "Error", id |-> 0, initial |-> FALSE]

\* What streamWatch sends for a record: toWatchEventError when the predicate
\* fails on it, else the event of toWatchEvent.
EventOf(rec, pred, initial) ==
    IF MatchErr(pred, rec.value) THEN ErrorEvent
    ELSE [type |-> EventType(rec), id |-> rec.id, initial |-> initial]

\* The head of the loop over the iterator: the next record is skipped when
\* the predicate rejects it, else its event is to be sent; after the last
\* record streamWatch goes on to poll.
StreamNext ==
    /\ wpc = "drain"
    /\ IF wlister = <<>>
       THEN /\ wpc' = "poll"
            /\ wstart' = [wstart EXCEPT !.first = FALSE]
            /\ wlister' = wlister
       ELSE IF MatchErr(wopts.pred, Head(wlister).value)
               \/ Matches(wopts.pred, Head(wlister).value)
       THEN /\ wpc' = "send"
            /\ UNCHANGED <<wstart, wlister>>
       ELSE /\ wpc' = "drain"
            /\ wlister' = Tail(wlister)
            /\ wstart' = wstart
    /\ UNCHANGED <<log, compactionID, writerVars, compactVars, getRes, listVars,
                   wopts, wsig, wctx, emitted>>

\* The consumer receives from the channel, which completes the send
\* streamWatch is blocked in: after an event of a record the loop goes on,
\* after the error of newLister streamWatch returns and the channel is closed.
StreamRecv ==
    /\ wpc \in {"send", "senderr"}
    /\ IF wpc = "send"
       THEN /\ emitted' = Append(emitted, EventOf(Head(wlister), wopts.pred, wstart.first))
            /\ wlister' = Tail(wlister)
            /\ wpc' = "drain"
       ELSE /\ emitted' = Append(emitted, ErrorEvent)
            /\ wlister' = wlister
            /\ wpc' = "closed"
    /\ UNCHANGED <<log, compactionID, writerVars, compactVars, getRes, listVars,
                   wopts, wsig, wstart, wctx>>

\* streamWatch polls: newLister lists the rows after the cursor in a
\* transaction begun with the context of the Watch, which fails once that
\* context is cancelled.  An error is to be sent as an event.
StreamPoll ==
    /\ wpc = "poll"
    /\ LET rev == ParseOpt(wopts.rv)
           nxt == list(log, compactionID, getNamespace(wopts.namespace), NilStr,
                       rev.n, TRUE, 0, 0)
       IN IF wctx \/ rev.err \/ nxt.err # "None"
          THEN /\ wpc' = "senderr"
               /\ UNCHANGED <<wopts, wlister>>
          ELSE /\ wlister' = nxt.records
               /\ IF FormatInt(nxt.meta.ListID) = wopts.rv
                  THEN /\ wpc' = "select"
                       /\ wopts' = wopts
                  ELSE /\ wpc' = "drain"
                       /\ wopts' = [wopts EXCEPT !.rv = FormatInt(nxt.meta.ListID)]
    /\ wsig' = FALSE
    /\ UNCHANGED <<log, compactionID, writerVars, compactVars, getRes, listVars,
                   wstart, wctx, emitted>>

\* The select ends on ctx.Done() of the cancelled context: streamWatch
\* returns and the channel is closed.
StreamDone ==
    /\ wpc = "parked"
    /\ wctx
    /\ wpc' = "closed"
    /\ wsig' = FALSE
    /\ UNCHANGED <<log, compactionID, writerVars, compactVars, getRes, listVars,
                   wopts, wlister, wstart, wctx, emitted>>

\* The caller of Watch cancels the context it passed.
CtxCancel ==
    /\ wpc \notin {"off", "closed"}
    /\ ~wctx
    /\ wctx' = TRUE
    /\ UNCHANGED <<log, compactionID, writerVars, compactVars, getRes, listVars,
                   wpc, wopts, wlister, wsig, wstart, emitted>>

NextStream ==
    \/ Commit("c1", FairReqs(log))
    \/ Bcast("c1")
    \/ WatchStart({""}, {<<>>, FormatInt(1)}, StreamPreds)
    \/ StreamNext
    \/ StreamRecv
    \/ StreamPoll
    \/ WatchSelect
    \/ WatchWake
    \/ WatchTimer
    \/ StreamDone
    \/ CtxCancel

\* The watcher goroutine runs: it takes every step that does not wait for
\* another party, and a select with a ready case ends.  Nothing makes the
\* consumer receive or the caller cancel.
SpecStream ==
    /\ Init /\ [][NextStream]_vars
    /\ WF_vars(StreamNext)
    /\ WF_vars(StreamPoll)
    /\ WF_vars(WatchSelect)
    /\ WF_vars(WatchWake \/ WatchTimer \/ StreamDone)

\* C12: once the context of a Watch is cancelled, streamWatch eventually
\* returns and closes the channel, whatever it was doing.
C12_Original == wctx ~> (wpc = "closed")

\* C13: an Error event sent because the predicate failed on a record is the
\* last event of the stream: no event follows it and streamWatch neither
\* sends, polls nor waits again.
C13_Original ==
    \A i \in 1..Len(emitted) :
        emitted[i].type = "Error" =>
            /\ i = Len(emitted)
            /\ wpc \notin {"send", "senderr", "poll", "select", "parked"}

(***************************************************************************)
(* One caller, the compaction task and the start of a Watch.               *)
(***************************************************************************)
NextCompactWatch ==
    \/ Write("c1", CompactListReqs(log))
    \/ CompactStart
    \/ CompactPrune
    \/ CompactAdvance
    \/ WatchStart({""}, {FormatInt(1), FormatInt(2)}, {"all"})
    \/ WatchDrain

SpecCompactWatch == Init /\ [][NextCompactWatch]_vars

\* C15: a Watch called with a resourceVersion R, 0 < R < watermark, fails
\* with CompactionExpired.
C15_Original ==
    (wstart.rev > 0 /\ wstart.rev < wstart.watermark) =>
        wstart.err = "CompactionExpired"

(***************************************************************************)
(* Properties of the checks of an update.                                  *)
(***************************************************************************)
UpdateOps == {"Update", "UpdateStatus", "Delete"}

\* The step in which the transaction of the call of caller c runs.
Executes(c) == pc[c] = "exec" /\ pc'[c] # "exec"

\* What db.get returns for the object of the call of caller c.
Current(c) == get(log, compactionID, req[c].obj.namespace, req[c].obj.name)

C19_StaleRV ==
    [][\A c \in Callers :
          (/\ Executes(c) /\ req[c].op \in UpdateOps
           /\ Current(c).err = "None"
           /\ req[c].obj.rv # Current(c).rec.id) =>
              (res'[c].err = "Conflict" /\ log' = log)]_vars

\* C19: a Delete of a live object with an empty resourceVersion has failed
\* with Conflict, and so has an Update with the id of a superseded row.
C19_Witness ==
    /\ \E c \in Callers :
          /\ res[c].op = "Delete" /\ res[c].live /\ res[c].rv = 0
          /\ res[c].err = "Conflict"
    /\ \E c \in Callers :
          /\ res[c].op = "Update" /\ res[c].live /\ res[c].rv > 0
          /\ res[c].err = "Conflict"

\* C20: an Update of a live object whose resourceVersion is the id of the
\* current row and whose uid is not the stored uid fails with UIDMismatch and
\* leaves the log unchanged; when the resourceVersion does not match either,
\* it fails with Conflict.
C20_UIDMismatch ==
    [][\A c \in Callers :
          (/\ Executes(c) /\ req[c].op \in UpdateOps
           /\ Current(c).err = "None"
           /\ req[c].obj.uid # Current(c).rec.uid) =>
              /\ log' = log
              /\ res'[c].err = IF req[c].obj.rv = Current(c).rec.id
                               THEN "UIDMismatch" ELSE "Conflict"]_vars

\* C20: one Update with a foreign uid has failed with UIDMismatch, another
\* with a stale resourceVersion as well has failed with Conflict.
C20_Witness ==
    /\ res["c1"].op = "Update" /\ res["c1"].err = "UIDMismatch"
    /\ res["c2"].op = "Update" /\ res["c2"].err = "Conflict" /\ res["c2"].live
    /\ res["c2"].rv > 0

\* The value that doUpdate encodes for the call rq.
Encoded(rq) ==
    Encode(IF rq.op = "Update" THEN rq.obj.gen + 1 ELSE rq.obj.gen,
           rq.obj.val, rq.obj.dts, rq.obj.fin)

\* The call of caller c is an Update or UpdateStatus, no tombstone, of the
\* object's current row: its resourceVersion and uid are those of the row and
\* its encoded value is the stored value.
SameValue(c) ==
    /\ req[c].op \in {"Update", "UpdateStatus"}
    /\ ~(req[c].obj.dts /\ ~req[c].obj.fin)
    /\ Current(c).err = "None"
    /\ req[c].obj.rv = Current(c).rec.id
    /\ req[c].obj.uid = Current(c).rec.uid
    /\ Encoded(req[c]) = Current(c).rec.value

\* C25: an update of the current row with its resourceVersion, its uid and
\* its stored value succeeds, returns the id of that row and leaves the log
\* unchanged; the same call made again does the same, and a poll of a watcher
\* reads after it the records it read before, whatever its cursor.
C25_NoOpUpdate ==
    [][\A c \in Callers :
          (Executes(c) /\ SameValue(c)) =>
              /\ res'[c].err = "None" /\ ~res'[c].appended
              /\ res'[c].id = Current(c).rec.id
              /\ log' = log
              /\ Call(log', compactionID', req[c].op, req[c].obj)
                    = Call(log, compactionID, req[c].op, req[c].obj)
              /\ \A rev \in 0..MaxId :
                    ListAfterSQL(log', NilStr, NilStr, rev, 0)
                        = ListAfterSQL(log, NilStr, NilStr, rev, 0)]_vars

\* C25: both callers have made an update that appended nothing and returned
\* the id of the same row, the second revision of the object.
C25_Witness ==
    /\ \A c \in Callers :
          /\ res[c].op \in {"Update", "UpdateStatus"}
          /\ res[c].err = "None" /\ ~res[c].appended
          /\ res[c].id = 2 /\ res[c].rv = 2
    /\ \E r \in log : r.id = 2 /\ r.previousID = 1

C28_Original ==
    [][\A c \in Callers :
          (Executes(c) /\ res'[c].err = "None") => pc'[c] = "bcast"]_vars

(***************************************************************************)
(* The lifetimes of one name: one caller and the compaction task.          *)
(***************************************************************************)
\* Inserts of this specification are enabled only while the id they
\* allocate is at most MaxLifeId.
MaxLifeId == 4

LifeKey == <<"a", "n1">>

\* The calls of the caller of this specification, all on one name: a Create
\* with any uid, the updates with any resourceVersion, those of rows that
\* are gone included.
LifeReqs ==
    [op : {"Create"},
     obj : {Obj(LifeKey, u, 0, 0, "v1", FALSE, FALSE) : u \in UIDs}]
    \cup
    [op : {"Update"},
     obj : {Obj(LifeKey, "u1", rv, 0, v, FALSE, FALSE) :
                rv \in 0..MaxLifeId, v \in Vals}]
    \cup
    [op : {"UpdateStatus"},
     obj : {Obj(LifeKey, "u1", rv, 1, "v2", FALSE, FALSE) : rv \in 0..MaxLifeId}]
    \cup
    [op : {"Delete"},
     obj : {Obj(LifeKey, "u1", rv, 0, "v1", FALSE, FALSE) : rv \in 0..MaxLifeId}]

\* A caller enters Create, Update, UpdateStatus or Delete with a call of R.
Enter(c, R) ==
    /\ pc[c] = "idle"
    /\ \E rq \in R :
          /\ req' = [req EXCEPT ![c] = rq]
          /\ res' = [res EXCEPT ![c] = [NoRes EXCEPT !.fresh = Fresh(log, compactionID, rq)]]
    /\ pc' = [pc EXCEPT ![c] = "exec"]
    /\ overlap' = (\E d \in Callers \ {c} : pc[d] = "exec")
    /\ UNCHANGED <<log, compactionID, maxRet, compactVars, getRes, listVars, watchVars, txs>>

\* The transaction of the call of the caller, from the table lock to the
\* commit, while the id it allocates is at most N.
Run(c, N) ==
    /\ pc[c] = "exec"
    /\ \E out \in {Call(log, compactionID, req[c].op, req[c].obj)} :
          /\ out.appended => out.id <= N
          /\ log' = out.log
          /\ req' = [req EXCEPT ![c] = NoReq]
          /\ res' = [res EXCEPT ![c] = Outcome(req[c], out, res[c].fresh)]
          /\ maxRet' = IF out.err = "None" /\ out.id > maxRet THEN out.id ELSE maxRet
          /\ pc' = [pc EXCEPT ![c] = IF Broadcasts(req[c].op) THEN "bcast" ELSE "idle"]
          /\ quiet' = Written(out.log)
    /\ UNCHANGED <<compactionID, overlap, cpc, cctx, getRes, listVars, watchVars, txs>>

NextLife ==
    \/ Enter("c1", LifeReqs)
    \/ Run("c1", MaxLifeId)
    \/ Bcast("c1")
    \/ CompactStart
    \/ CompactPrune
    \/ CompactAdvance

SpecLife == Init /\ [][NextLife]_vars

(***************************************************************************)
(* Properties of the lifetimes of a name.                                  *)
(***************************************************************************)
\* The row that the call of caller c has appended.
Appended(c) == RowOfId(log', res'[c].id)

\* C21: a Create of a name whose object is not live (its newest row is a
\* tombstone, or compaction has pruned its rows, or it never had one)
\* succeeds whatever uid it carries and whatever compaction has done since
\* the Delete, and appends one row, the newest of the name: a creation row
\* with no previous_id that carries the uid of the call.
C21_Recreate ==
    [][\A c \in Callers :
          (Executes(c) /\ req[c].op = "Create" /\ Current(c).err = "NotFound") =>
              /\ res'[c].err = "None"
              /\ res'[c].id \notin IdsOf(log)
              /\ log' = log \cup {Appended(c)}
              /\ Appended(c).created /\ Appended(c).previousID = NULL
              /\ ~Appended(c).deleted
              /\ Appended(c).uid = req[c].obj.uid
              /\ IsNewestLive(log', Appended(c))]_vars

\* C21: the newest row of the name is a creation row with uid u2 that
\* follows a tombstone with uid u1, and the watermark was advanced between
\* the two.
C21_Witness ==
    \E r \in log, t \in log :
        /\ IsNewestLive(log, r) /\ r.created /\ r.uid = "u2"
        /\ t.deleted /\ t.uid = "u1" /\ t.name = r.name /\ t.namespace = r.namespace
        /\ t.id <= compactionID /\ compactionID < r.id

\* Every row of the name, as listafter.sql reads the rows after revision 0.
RowsRead(l, namespace, name) == ListAfterSQL(l, namespace, name, 0, 0)

\* The rows of the name are those of a Create and two Updates that
\* appended: a creation row and two revisions, each the successor of the
\* row before.
CreatedUpdatedTwice(h) ==
    /\ Len(h) = 3
    /\ h[1].previousID = NULL /\ h[2].previousID = h[1].id /\ h[3].previousID = h[2].id
    /\ \A i \in 1..3 : ~h[i].deleted

\* C22: when no compaction has run and the rows of a name are those of a
\* Create and two Updates, a successful Delete leaves four rows of the name
\* of which exactly one is read with created = true (the creation row, which
\* the list statements report as created because it has no previous_id) and
\* exactly one with deleted = true.
C22_OneCreatedOneDeleted ==
    [][\A c \in Callers :
          (/\ Executes(c) /\ req[c].op = "Delete" /\ compactionID = 0
           /\ CreatedUpdatedTwice(RowsRead(log, req[c].obj.namespace, req[c].obj.name))
           /\ res'[c].err = "None") =>
              LET h == RowsRead(log', req[c].obj.namespace, req[c].obj.name)
              IN /\ Len(h) = 4
                 /\ Cardinality({i \in 1..Len(h) : h[i].created}) = 1
                 /\ Cardinality({i \in 1..Len(h) : h[i].deleted}) = 1
                 /\ h[1].created /\ h[4].deleted]_vars

\* C22: the Delete that followed a Create and two Updates has succeeded, no
\* compaction having run.
C22_Witness ==
    /\ res["c1"].op = "Delete" /\ res["c1"].err = "None" /\ res["c1"].appended
    /\ compactionID = 0
    /\ LET h == RowsRead(log, res["c1"].namespace, res["c1"].name)
       IN /\ Len(h) = 4
          /\ CreatedUpdatedTwice(SubSeq(h, 1, 3))
          /\ h[4].id = res["c1"].id

\* The newest row of the object of the call of caller c is a tombstone.
Tombstoned(c) ==
    /\ RowsOf(log, req[c].obj.namespace, req[c].obj.name) # {}
    /\ NewestOf(RowsOf(log, req[c].obj.namespace, req[c].obj.name)).deleted

\* C26: while the newest row of a name is a tombstone, an Update,
\* UpdateStatus or Delete of that name fails (with Conflict) and leaves the
\* log unchanged whatever resourceVersion it submits; and every row that is
\* appended with a previous_id is the successor of a row that is no
\* tombstone, so that only a creation row follows a tombstone.
C26_TombstoneFinal ==
    [][/\ \A c \in Callers :
             (Executes(c) /\ req[c].op \in UpdateOps /\ Tombstoned(c)) =>
                 (res'[c].err = "Conflict" /\ ~res'[c].appended /\ log' = log)
       /\ \A id \in IdsOf(log') \ IdsOf(log) :
             RowOfId(log', id).previousID # NULL =>
                 \E p \in log : p.id = RowOfId(log', id).previousID /\ ~p.deleted]_vars

\* C26: a Delete that submitted the id of the row before the tombstone has
\* failed, the tombstone being the newest row of the name.
C26_Witness ==
    /\ res["c1"].op = "Delete" /\ res["c1"].err = "Conflict"
    /\ \E t \in log :
          /\ t.deleted /\ t.name = res["c1"].name /\ t.namespace = res["c1"].namespace
          /\ t = NewestOf(RowsOf(log, t.namespace, t.name))
          /\ t.previousID = res["c1"].rv
          /\ \E p \in log : p.id = t.previousID

(***************************************************************************)
(* Finalizers: one caller on one object, and one watcher.                  *)
(***************************************************************************)
\* The calls of the caller of this specification: the object is created
\* with or without finalizers, and updated or deleted with the id of its
\* newest row, with or without a deletionTimestamp and finalizers.
FinalizerReqs(l) ==
    LET newest == {n \in KnownRVs(l, LifeKey) \ {0} :
                      \A m \in KnownRVs(l, LifeKey) : m <= n}
    IN [op : {"Create"},
        obj : {Obj(LifeKey, "u1", 0, 0, "v1", FALSE, fin) : fin \in BOOLEAN}]
       \cup
       [op : {"Update"},
        obj : {Obj(LifeKey, "u1", rv, 0, "v1", dts, fin) :
                   rv \in newest, dts \in BOOLEAN, fin \in BOOLEAN}]
       \cup
       [op : {"Delete"},
        obj : {Obj(LifeKey, "u1", rv, 0, "v1", dts, fin) :
                   rv \in newest, dts \in BOOLEAN, fin \in BOOLEAN}]

NextFinalizer ==
    \/ Commit("c1", FinalizerReqs(log))
    \/ Bcast("c1")
    \/ WatchStart({""}, {<<>>, FormatInt(1)}, {"all"})
    \/ WatchDrain
    \/ WatchPoll
    \/ WatchSelect
    \/ WatchWake
    \/ WatchTimer
    \/ WatchCancel

SpecFinalizer == Init /\ [][NextFinalizer]_vars

\* The object stored in the row has a deletionTimestamp and no finalizers.
Terminating(r) == r.value.dts /\ ~r.value.fin

\* C27: a row appended by Update, UpdateStatus or Delete is a tombstone
\* exactly when the object submitted (with the deletionTimestamp that Delete
\* stamps) has a deletionTimestamp and no finalizers.  A row with finalizers
\* left is an ordinary revision: while it is the newest row Get returns it
\* and a List at HEAD has it, and a watcher of the tail sends it as Modified;
\* the tombstone is sent as Deleted and Get finds nothing.
C27_TombstoneIff ==
    /\ \A r \in log :
          r.previousID # NULL =>
              /\ r.deleted = Terminating(r)
              /\ IsNewestLive(log, r) =>
                    /\ get(log, compactionID, r.namespace, r.name).err = "None"
                    /\ get(log, compactionID, r.namespace, r.name).rec.id = r.id
                    /\ r.id \in SnapshotIds(log, MaxIdOf(log))
                    /\ \E i \in 1..Len(ItemsAt(log, compactionID, "", 0).items) :
                          ItemsAt(log, compactionID, "", 0).items[i][3] = r.id
              /\ (r.deleted /\ r = NewestOf(RowsOf(log, r.namespace, r.name))) =>
                    get(log, compactionID, r.namespace, r.name).err = "NotFound"
    /\ \A i \in 1..Len(TailEvents) :
          LET r == RowOfId(log, TailEvents[i].id)
          IN r.previousID # NULL =>
                /\ (TailEvents[i].type = "Deleted") = Terminating(r)
                /\ (TailEvents[i].type = "Modified") = ~Terminating(r)

\* C27: the watcher has sent Modified for the row of a Delete of the object
\* with a finalizer, and Deleted for the row of the Update that carried the
\* deletionTimestamp and no finalizer.
C27_Witness ==
    \E i, j \in 1..Len(TailEvents) :
        /\ i < j
        /\ TailEvents[i].type = "Modified"
        /\ RowOfId(log, TailEvents[i].id).value.dts
        /\ RowOfId(log, TailEvents[i].id).value.fin
        /\ TailEvents[j].type = "Deleted"
        /\ RowOfId(log, TailEvents[j].id).value.gen = 1
        /\ res["c1"].op = "Update"

(***************************************************************************)
(* The write transaction statement by statement: two callers.              *)
(***************************************************************************)
\* The calls of the callers of this specification.
LockReqs(l) ==
    [op : {"Create"},
     obj : {Obj(k, "u1", 0, 0, "v1", FALSE, FALSE) : k \in Keys}]
    \cup
    [op : {"Update", "Delete"},
     obj : {Obj(<<"a", "n1">>, "u1", rv, 0, "v2", FALSE, FALSE) :
                rv \in KnownRVs(l, <<"a", "n1">>)}]

\* The table lock of doInsert is granted, or the only connection of the pool
\* is free: no other write transaction is under way.
TableLock(c) == \A d \in Callers \ {c} : ~txs[d].held

\* doInsert without its first statement: the transaction begins whether or
\* not another write transaction is under way.
TxBeginNoLock(c) ==
    /\ pc[c] = "exec"
    /\ ~txs[c].held
    /\ txs' = [txs EXCEPT ![c] = [held |-> TRUE, snap |-> log]]
    /\ UNCHANGED <<log, compactionID, pc, req, res, maxRet, overlap, compactVars,
                   getRes, listVars, watchVars>>

\* The transaction of the call begins and doInsert takes the table lock; the
\* statements of the REPEATABLE READ transaction read the rows committed by
\* then.
TxBegin(c) ==
    /\ pc[c] = "exec"
    /\ ~txs[c].held
    /\ TableLock(c)
    /\ txs' = [txs EXCEPT ![c] = [held |-> TRUE, snap |-> log]]
    /\ UNCHANGED <<log, compactionID, pc, req, res, maxRet, overlap, compactVars,
                   getRes, listVars, watchVars>>

\* The table after the statements of a transaction that appended the row
\* with the given id: the INSERT, and the clear of created after a tombstone.
Applied(l, out) ==
    IF ~out.appended THEN l
    ELSE LET Row(r) == IF r.deleted
                       THEN ClearCreatedSQL(l \cup {r}, r.namespace, r.name, r.id)
                       ELSE l \cup {r}
         IN Row(RowOfId(out.log, out.id))

\* The rest of the transaction: the checks of doInsert and the INSERT, which
\* fails on the primary key when the id it computes is in the table, then
\* the commit, which releases the lock.
TxCommit(c) ==
    /\ pc[c] = "exec"
    /\ txs[c].held
    /\ \E run \in {Call(txs[c].snap, compactionID, req[c].op, req[c].obj)} :
          \E out \in {IF run.appended /\ run.id \in IdsOf(log)
                      THEN [run EXCEPT !.err = "AlreadyExists", !.id = 0,
                                       !.appended = FALSE, !.log = log]
                      ELSE [run EXCEPT !.log = Applied(log, run)]} :
             /\ out.appended => out.id <= MaxId
             /\ log' = out.log
             /\ req' = [req EXCEPT ![c] = NoReq]
             /\ res' = [res EXCEPT ![c] = Outcome(req[c], out, res[c].fresh)]
             /\ maxRet' = IF out.err = "None" /\ out.id > maxRet THEN out.id ELSE maxRet
             /\ pc' = [pc EXCEPT ![c] = IF Broadcasts(req[c].op) THEN "bcast" ELSE "idle"]
             /\ quiet' = Written(out.log)
    /\ txs' = [txs EXCEPT ![c] = NoTx]
    /\ UNCHANGED <<compactionID, overlap, cpc, cctx, getRes, listVars, watchVars>>

NextLock ==
    \/ \E c \in Callers : Enter(c, LockReqs(log))
    \/ \E c \in Callers : TxBegin(c)
    \/ \E c \in Callers : TxCommit(c)
    \/ \E c \in Callers : Bcast(c)

SpecLock == Init /\ [][NextLock]_vars

\* C30: whatever the interleaving of the calls of the two callers, the id of
\* a row that becomes visible is greater than the id of every row visible
\* before (ids are distinct and follow the order of the commits, and no
\* reader sees a smaller id appear later), the rows of the table have
\* distinct ids, and a Create of a name that has no row succeeds.
C30_Serialised ==
    [][/\ \A id \in IdsOf(log') \ IdsOf(log) : id > MaxIdOf(log)
       /\ \A r \in log', q \in log' : r.id = q.id => r = q
       /\ \A c \in Callers :
             (/\ Executes(c) /\ req[c].op = "Create"
              /\ RowsOf(log, req[c].obj.namespace, req[c].obj.name) = {}) =>
                 (res'[c].err = "None" /\ res'[c].appended)]_vars

\* C30: two Creates of different names were in flight together and both
\* have succeeded, the second caller's with the smaller id.
C30_Witness ==
    /\ overlap
    /\ \A c \in Callers : res[c].op = "Create" /\ res[c].err = "None" /\ res[c].appended
    /\ <<res["c1"].name, res["c1"].namespace>> # <<res["c2"].name, res["c2"].namespace>>
    /\ res["c2"].id < res["c1"].id

(***************************************************************************)
(* Generations: one caller that writes what it has read.                   *)
(***************************************************************************)
GenKey == <<"a", "n1">>

\* The object a Get returned for the row r, with the value v put in it.
Got(r, v) == Obj(<<r.name, r.namespace>>, r.uid, r.id, r.value.gen, v, FALSE, FALSE)

\* The calls of the caller of this specification: a Create with any
\* generation, Update, UpdateStatus and Delete of an object read by a Get,
\* now or earlier, and Update and UpdateStatus of the current row with a
\* generation of the caller's choice.
GenReqs(l) ==
    [op : {"Create"},
     obj : {Obj(GenKey, "u1", 0, g, "v1", FALSE, FALSE) : g \in {0, 2}}]
    \cup
    [op : {"Update", "UpdateStatus"},
     obj : {Got(r, v) : r \in RowsOf(l, GenKey[2], GenKey[1]), v \in Vals}]
    \cup
    [op : {"Update", "UpdateStatus"},
     obj : {[Got(r, "v1") EXCEPT !.gen = g] :
                r \in {q \in RowsOf(l, GenKey[2], GenKey[1]) : q.id = MaxIdOf(l)},
                g \in 0..2}]
    \cup
    [op : {"Delete"},
     obj : {Got(r, "v1") : r \in RowsOf(l, GenKey[2], GenKey[1])}]

NextGen ==
    \/ Enter("c1", GenReqs(log))
    \/ Run("c1", MaxLifeId)
    \/ Bcast("c1")

SpecGen == Init /\ [][NextGen]_vars

\* The generation stored for the object of the call of c after its step.
StoredGen(c) ==
    get(log', compactionID', req[c].obj.namespace, req[c].obj.name).rec.value.gen

\* The call of c submits what a Get returns now.
GetThen(c) ==
    /\ Current(c).err = "None"
    /\ req[c].obj.rv = Current(c).rec.id
    /\ req[c].obj.gen = Current(c).rec.value.gen

\* C31: a successful Create stores generation 1 whatever the caller
\* supplied, a successful Update the submitted generation plus one, a
\* successful UpdateStatus the submitted generation; so an Update of what
\* Get returns adds one to the stored generation and an UpdateStatus of what
\* Get returns leaves it as it is.
C31_Generation ==
    [][\A c \in Callers :
          (Executes(c) /\ res'[c].err = "None") =>
             /\ req[c].op = "Create" => StoredGen(c) = 1
             /\ req[c].op = "Update" => StoredGen(c) = req[c].obj.gen + 1
             /\ req[c].op = "UpdateStatus" => StoredGen(c) = req[c].obj.gen
             /\ (req[c].op = "Update" /\ GetThen(c)) =>
                    StoredGen(c) = Current(c).rec.value.gen + 1
             /\ (req[c].op = "UpdateStatus" /\ GetThen(c)) =>
                    StoredGen(c) = Current(c).rec.value.gen]_vars

\* C31: the object was created with a supplied generation other than 1 and
\* has four rows, two of them from Updates and one from an UpdateStatus: its
\* generation is 3.
C31_Witness ==
    /\ Cardinality(RowsOf(log, GenKey[2], GenKey[1])) = 4
    /\ \A r \in log : ~r.deleted
    /\ {r.value.gen : r \in log} = {1, 2, 3}
    /\ get(log, compactionID, GenKey[2], GenKey[1]).rec.value.gen = 3
    /\ res["c1"].op = "UpdateStatus" /\ res["c1"].appended

(***************************************************************************)
(* Destroy: one caller, the compaction task and the end of the store.      *)
(***************************************************************************)
\* Strategy.Destroy: cancelCompaction, then db.Close.
Destroy ==
    /\ ~cctx
    /\ cctx' = TRUE
    /\ UNCHANGED <<log, compactionID, writerVars, cpc, quiet, getRes, listVars, watchVars>>

\* The select of the compaction task takes the case of ctx.Done: the task
\* returns.
CompactExit ==
    /\ cpc = "idle"
    /\ cctx
    /\ cpc' = "exited"
    /\ UNCHANGED <<log, compactionID, writerVars, quiet, cctx, getRes, listVars, watchVars>>

\* A statement of db.compact that runs although the context is cancelled.
CompactNotCancelled ==
    /\ cpc \in {"prune", "advance"}
    /\ cctx
    /\ log' = log \ Prunable(log, compactionID)
    /\ cpc' = "idle"
    /\ UNCHANGED <<compactionID, writerVars, quiet, cctx, getRes, listVars, watchVars>>

\* A statement of db.compact under the cancelled context: execContext
\* returns the error of the context, db.compact returns it and the task logs
\* it and goes back to its select.
CompactCancelled ==
    /\ cpc \in {"prune", "advance"}
    /\ cctx
    /\ cpc' = "idle"
    /\ UNCHANGED <<log, compactionID, writerVars, quiet, cctx, getRes, listVars, watchVars>>

\* The select of the task takes a case that is ready, the tick included
\* when the context is cancelled too; a select that finds the context
\* cancelled again and again takes that case in the end.
NextDestroy ==
    \/ ~cctx /\ Write("c1", CompactListReqs(log))
    \/ CompactStart
    \/ ~cctx /\ CompactPrune
    \/ ~cctx /\ CompactAdvance
    \/ CompactCancelled
    \/ CompactExit
    \/ Destroy

SpecDestroy ==
    /\ Init
    /\ [][NextDestroy]_vars
    /\ WF_vars(CompactCancelled)
    /\ SF_vars(CompactExit)

\* C32 as stated: after Destroy the compaction task exits in the end and
\* starts no db.compact.
C32_Original ==
    /\ cctx ~> (cpc = "exited")
    /\ [][cctx => ~(cpc = "idle" /\ cpc' = "prune")]_vars

\* C32: after Destroy the compaction task exits in the end, and a db.compact
\* under way or started after Destroy changes neither the rows nor the
\* watermark.
C32_ExitsAndNoEffect ==
    /\ cctx ~> (cpc = "exited")
    /\ [][cctx => (log' = log /\ compactionID' = compactionID)]_vars
    /\ [](cpc = "exited" => cctx)

\* C32: the task has exited after Destroy and rows that a db.compact would
\* have deleted are still there.
C32_Witness ==
    /\ cctx
    /\ cpc = "exited"
    /\ Prunable(log, compactionID) # {}

(***************************************************************************)
(* One caller, the compaction task and a watcher that follows the log.     *)
(***************************************************************************)
\* The calls of the caller of this specification: Create of two objects and
\* Delete of one of them.
TailReqs(l) ==
    {rq \in CompactReqs(l) :
        rq.op = "Create" \/ (rq.op = "Delete" /\ rq.obj.namespace = "n1")}

\* The caller writes while the id of the next row has not been given before.
NextCompactTail ==
    \/ NextId(log) > maxRet /\ Write("c1", TailReqs(log))
    \/ CompactStart
    \/ CompactPrune
    \/ CompactAdvance
    \/ WatchStart({""}, {<<>>}, {"all"})
    \/ WatchDrain
    \/ WatchPoll
    \/ WatchSelect
    \/ WatchTimer

SpecCompactTail == Init /\ [][NextCompactTail]_vars

\* The cursor of the watcher: the resourceVersion of its options.
Cursor == ParseOpt(wopts.rv).n

\* The watcher is caught up: its cursor is the greatest id written, and no
\* row of the log is above it.
CaughtUp == Cursor > 0 /\ Cursor = maxRet /\ Cursor >= MaxIdOf(log)

\* C36: a poll of a watcher that is caught up does not end the stream with
\* an error, whatever db.compact has done.
C36_Original ==
    [][(wpc = "poll" /\ CaughtUp) => wpc' # "closed"]_vars

(***************************************************************************)
(* db.delete statement by statement, with statements that fail.            *)
(***************************************************************************)
\* The deferred tx.Rollback of a transaction that commits what it has
\* written.
RollbackKeepsWork(committed, work) == work

\* The deferred tx.Rollback of db.insert and db.delete: the rows the
\* transaction has written are dropped, the committed rows stay.
Rollback(committed, work) == committed

\* The call of the caller goes to db.delete: doUpdate with a deletion
\* timestamp and no finalizer.
ToDelete(rq) ==
    rq.op = "Delete" \/ (rq.op \in {"Update", "UpdateStatus"} /\ rq.obj.dts /\ ~rq.obj.fin)

\* The rows of the transaction of rq after doInsert: the insert of db.insert,
\* or of db.delete before its clear of created.  The d.get inside doInsert
\* runs in the transaction of the caller (beginTx hands it a noopTx).
Inserted(l, cid, rq) ==
    IF ToDelete(rq)
    THEN deleteNoClear(l, cid,
             [name |-> rq.obj.name, namespace |-> rq.obj.namespace,
              previousID |-> rq.obj.rv, uid |-> rq.obj.uid, created |-> FALSE,
              deleted |-> FALSE,
              value |-> Encode(IF rq.op = "Update" THEN rq.obj.gen + 1 ELSE rq.obj.gen,
                               rq.obj.val, TRUE, rq.obj.fin)])
    ELSE Call(l, cid, rq.op, rq.obj)

\* What the caller gets when a statement fails for a reason outside the
\* table: the context is cancelled or the connection is lost.
Failed(l) == [err |-> "Internal", id |-> 0, log |-> l, appended |-> FALSE]

\* The caller's call returns with the outcome out.
Return(c, out) ==
    /\ log' = out.log
    /\ req' = [req EXCEPT ![c] = NoReq]
    /\ res' = [res EXCEPT ![c] = Outcome(req[c], out, res[c].fresh)]
    /\ maxRet' = IF out.err = "None" /\ out.id > maxRet THEN out.id ELSE maxRet
    /\ pc' = [pc EXCEPT ![c] = IF Broadcasts(req[c].op) THEN "bcast" ELSE "idle"]
    /\ quiet' = Written(out.log)
    /\ txs' = [txs EXCEPT ![c] = NoTx]

\* The transaction of the call up to the end of doInsert.  An error of
\* doInsert returns through the deferred Rollback; db.insert commits; db.delete
\* goes on to the clear of created with its tombstone written, not committed.
TxInsert(c) ==
    /\ pc[c] = "exec"
    /\ TableLock(c)
    /\ \E out \in {Inserted(log, compactionID, req[c])} :
          /\ out.appended => out.id <= MaxId
          /\ IF out.err # "None"
             THEN Return(c, [out EXCEPT !.log = Rollback(log, out.log)])
             ELSE IF ~ToDelete(req[c])
             THEN Return(c, out)
             ELSE /\ pc' = [pc EXCEPT ![c] = "clear"]
                  /\ txs' = [txs EXCEPT ![c] = [held |-> TRUE, snap |-> out.log]]
                  /\ res' = [res EXCEPT ![c] = [@ EXCEPT !.id = out.id]]
                  /\ UNCHANGED <<log, req, maxRet, quiet>>
    /\ UNCHANGED <<compactionID, overlap, cpc, cctx, getRes, listVars, watchVars>>

\* The clear of created and the commit of db.delete; either may fail, and
\* then the deferred Rollback runs.
TxClear(c) ==
    /\ pc[c] = "clear"
    /\ \E ok \in BOOLEAN :
          IF ok
          THEN Return(c, [err |-> "None", id |-> res[c].id, appended |-> TRUE,
                          log |-> ClearCreatedSQL(txs[c].snap, req[c].obj.namespace,
                                                  req[c].obj.name, res[c].id)])
          ELSE Return(c, Failed(Rollback(log, txs[c].snap)))
    /\ UNCHANGED <<compactionID, overlap, cpc, cctx, getRes, listVars, watchVars>>

NextTx ==
    \/ \E c \in Callers : Enter(c, LockReqs(log))
    \/ \E c \in Callers : TxInsert(c)
    \/ \E c \in Callers : TxClear(c)
    \/ \E c \in Callers : Bcast(c)

SpecTx == Init /\ [][NextTx]_vars

\* The call of c returns to its caller.
Returns(c) == pc[c] \in {"exec", "clear"} /\ pc'[c] \in {"bcast", "idle"}

\* C38: a Create, Update, UpdateStatus or Delete that returns an error has
\* changed neither the rows nor the watermark, a Delete that fails after the
\* insert of its tombstone included; the rows of a transaction that has not
\* committed are not in the table.
C38_ErrorNoEffect ==
    [][\A c \in Callers :
          /\ (Returns(c) /\ res'[c].err # "None") =>
                (log' = log /\ compactionID' = compactionID)
          /\ pc'[c] = "clear" => log' = log]_vars

\* C38: a Delete has failed after the insert of its tombstone: the object is
\* still live, with its creation row marked created.
C38_Witness ==
    \E c \in Callers :
        /\ res[c].op = "Delete" /\ res[c].err = "Internal"
        /\ pc[c] \in {"bcast", "idle"}
        /\ \E r \in RowsOf(log, res[c].namespace, res[c].name) :
              r.id = res[c].rv /\ r.created /\ IsNewestLive(log, r)

(***************************************************************************)
(* One caller and the compaction task, which keeps running.                *)
(***************************************************************************)
NextCompactFair ==
    \/ Write("c1", CompactListReqs(log))
    \/ CompactStart
    \/ CompactPrune
    \/ CompactAdvance

\* The compaction task is scheduled: a statement of db.compact that can run
\* does run.  Nothing is assumed of the caller.
SpecCompactFair ==
    /\ Init
    /\ [][NextCompactFair]_vars
    /\ WF_vars(CompactPrune)
    /\ WF_vars(CompactAdvance)

\* C40: a db.compact that has started ends, whatever the caller commits
\* between its batches, and the watermark changes only in its last
\* statement, once.
C40_Original ==
    /\ (cpc = "prune") ~> (cpc = "idle")
    /\ [][compactionID' # compactionID => (cpc = "advance" /\ cpc' = "idle")]_vars

====
